---- MODULE Spec2Model ----
(***************************************************************************)
(* Conversation orchestration and tenant isolation of WorkHub_AI.          *)
(*                                                                         *)
(* Rows of the relational tables are records kept in sequences; the id of  *)
(* a row is its index, and since ids are handed out in creation order the  *)
(* index also stands for created_at.  Text columns whose characters matter *)
(* to the code (names, handoff reasons, URL paths) are sequences of        *)
(* one-character strings; NULL is the one-element sequence NullSeq.        *)
(* Columns that the code only copies are short tokens, NULL being "NULL".  *)
(***************************************************************************)
EXTENDS Integers, Sequences, FiniteSets, TLC

(***************************************************************************)
(* Bounds of the model                                                     *)
(***************************************************************************)
MaxUsers == 2
MaxConvs == 2
MaxMsgs == 5
MaxLeads == 2
MaxToolCalls == 3
MaxInvokes == 2
MaxPrompts == 3

(***************************************************************************)
(* Text helpers                                                            *)
(***************************************************************************)
NullSeq == <<"NULL">>
NullTok == "NULL"

\* str.lower() on the characters the model uses
LowerCh(c) ==
  CASE c = "A" -> "a"
    [] c = "D" -> "d"
    [] c = "P" -> "p"
    [] c = "F" -> "f"
    [] OTHER -> c

LowerStr(s) == [i \in 1..Len(s) |-> LowerCh(s[i])]

\* Python's  sub in s
Contains(s, sub) ==
  \E i \in 0..(Len(s) - Len(sub)) : SubSeq(s, i + 1, i + Len(sub)) = sub

\* Python's  s.startswith(p)
StartsWith(s, p) == Len(p) <= Len(s) /\ SubSeq(s, 1, Len(p)) = p

\* truthiness of an Optional[str]
Truthy(s) == s # NullSeq /\ s # <<>>

SetMax(S) == CHOOSE m \in S : \A x \in S : x <= m

(***************************************************************************)
(* Enumerations                                                            *)
(***************************************************************************)
ConversationStatus == {"active", "awaiting_human", "converted", "lost", "abandoned"}
FunnelStage == {"awareness", "interest", "consideration", "negotiation",
                "closed_won", "closed_lost"}
LeadStage == {"cold", "warm", "hot", "qualified", "converted"}

\* str.lower() on the enum tokens a tool call may carry
LowerTok(s) ==
  CASE s = "ACTIVE" -> "active"
    [] s = "Negotiation" -> "negotiation"
    [] s = "HOT" -> "hot"
    [] OTHER -> s

(***************************************************************************)
(* Input domains                                                           *)
(***************************************************************************)
TenantIds == {"workhub", "acme"}
DefaultTenant == "workhub"

UserKeys == {"k1", "k2", "k3"}
\* the key the chat requests of the model carry
ChatKeys == {"k1"}

NameAna == <<"A", "n", "a">>
NameAn == <<"a", "n">>
NameAdmin == <<"A", "d", "m", "i", "n">>
UserNames == {NullSeq, NameAna, NameAn, NameAdmin}
ChatNames == {NullSeq, NameAdmin}
\* the names of the requests that change a user's persona
PersonaNames == {NullSeq, NameAdmin, NameAna}

Texts == {"hi"}

ReasonPronto == <<"P", "r", "o", "n", "t", "o">>
ReasonOk == <<"o", "k">>
Reasons == {ReasonPronto, ReasonOk}
WordPronto == <<"p", "r", "o", "n", "t", "o">>
WordFechar == <<"f", "e", "c", "h", "a", "r">>

Summaries == {"s1", "s2"}

\* reasons, funnel stages, lead stages and scores the lead tools are tried with
ReasonFechar == <<"F", "e", "c", "h", "a", "r">>
LeadReasons == {ReasonPronto, ReasonFechar, ReasonOk}
\* the reason the agent passes when the customer is ready to close
ReasonReadyToClose ==
  <<"r", "e", "a", "d", "y", " ", "t", "o", " ", "c", "l", "o", "s", "e">>
HandoffReasons == {ReasonReadyToClose, ReasonOk}
FunnelTokens == {"Negotiation", "consideration", "closed_won"}
LeadStageTokens == {"HOT", "bogus"}
\* the conversation the lead tools are tried on
LeadCid == 1
NoScore == -999
ScoreInputs == {NoScore, -5, 40, 150}

\* conversation_id inputs: 0 is None, -1 is a malformed id, k > 0 is a
\* well-formed UUID, which names row k once that row exists
NoCid == 0
BadCid == -1
CidInputs == {NoCid, BadCid} \cup (1..MaxConvs)

StatusTokens == {NullTok, "ACTIVE", "converted", "bogus"}
StageTokens == {NullTok, "Negotiation", "bogus"}

ADMIN_KEYWORDS == << <<"a", "d", "m", "i", "n">>, <<"A", "D", "M", "I", "N">>,
                     <<"a", "d", "m", "i", "n", "i", "s", "t", "r", "a", "d", "o", "r">>,
                     <<"A", "d", "m", "i", "n", "i", "s", "t", "r", "a", "d", "o", "r">> >>

VARIABLES
  users,      \* users table
  convs,      \* conversations table, committed rows
  sess,       \* conversations as held by the request's session (pending writes)
  msgs,       \* messages table
  leads,      \* leads table
  pc,         \* "idle" or "agent": an agent run is in progress
  run,        \* the request being served while pc = "agent"
  last,       \* the last completed operation and its result
  resolved,   \* (tenant, key) -> user id returned by the last resolution
  invokes,    \* agent runs started outside process_message so far
  tenants,    \* tenants table, by slug
  http,       \* the last HTTP request and the response it got
  MULTI_TENANT_ENABLED,  \* the deployment's mode setting
  prompts,    \* prompt_templates table
  prompt_cache,     \* TenantPromptService.prompt_cache, NULL where no entry
  docs,       \* knowledge_documents table: the tenant's "product-knowledge" document
  knowledge_cache,  \* TenantPromptService.knowledge_cache, NULL where no entry
  flights     \* the chat requests in progress, one per worker, each with its own session

vars == <<users, convs, sess, msgs, leads, pc, run, last, resolved, invokes,
          tenants, http, MULTI_TENANT_ENABLED,
          prompts, prompt_cache, docs, knowledge_cache, flights>>

contentVars == <<prompts, prompt_cache, docs, knowledge_cache>>
httpVars == <<tenants, http, MULTI_TENANT_ENABLED, contentVars, flights>>

PromptTypes == {"sales_agent", "admin_agent"}
coreVars == <<users, convs, sess, msgs, leads, pc, run, last, resolved, invokes>>

NoRun == [scope |-> NullTok, persona |-> "none", conv |-> 0, user |-> 0,
          viaChat |-> FALSE, calls |-> 0]

\* bcrypt.hashpw / bcrypt.checkpw: a hash verifies exactly the key it was made of
HashOf(key) == [bcrypt |-> key]
CheckPw(key, hash) == hash = HashOf(key)

TenantSlugs == TenantIds
ApiKeyOf(slug) == IF slug = "workhub" THEN "key-w" ELSE "key-a"
NoHash == [bcrypt |-> NullTok]

\* api_key_prefix is a nullable column; the seeded tenants carry none
NoPrefix == <<>>

InitTenants ==
  [slug \in TenantSlugs |->
     [status |-> "active", is_active |-> TRUE, api_key_hash |-> HashOf(ApiKeyOf(slug)),
      api_key_prefix |-> NoPrefix, expires_at |-> NullTok]]

NoRequest == [method |-> NullTok]

\* the workers that serve chat requests side by side
Workers == {1, 2}

NoLeadSeen == [stage |-> "none", score |-> 0]

\* a worker without a request; view is the Conversation object of the
\* request's session, found and lead are what its Lead lookup returned
NoFlight ==
  [pc |-> "idle", tenant |-> NullTok, conv |-> 0, user |-> 0, calls |-> 0,
   view |-> [user |-> 0, tenant |-> NullTok, status |-> "active",
             stage |-> "awareness", summary |-> NullTok, reason |-> NullSeq,
             requested_at |-> 0],
   reason |-> NullSeq, looked |-> FALSE, found |-> {}, lead |-> NoLeadSeen]

InitCore ==
  /\ users = <<>>
  /\ convs = <<>>
  /\ sess = <<>>
  /\ msgs = <<>>
  /\ leads = <<>>
  /\ pc = "idle"
  /\ run = NoRun
  /\ last = [op |-> "init"]
  /\ resolved = [p \in TenantIds \X UserKeys |-> 0]
  /\ invokes = 0
  /\ tenants = InitTenants
  /\ http = NoRequest
  /\ prompts = <<>>
  /\ prompt_cache = [k \in TenantIds \X PromptTypes |-> NullTok]
  /\ docs = [t \in TenantIds |-> NullTok]
  /\ knowledge_cache = [t \in TenantIds |-> NullTok]
  /\ flights = [w \in Workers |-> NoFlight]

Init == InitCore /\ MULTI_TENANT_ENABLED = FALSE

(***************************************************************************)
(* Identity resolution: ChatService.get_or_create_user                     *)
(***************************************************************************)
NewUser(key, name) == [key |-> key, name |-> name, tenant |-> NullTok]

\* select(User).where(User.user_key == user_key)
UsersByKey(us, key) == {i \in 1..Len(us) : us[i].key = key}

\* select(User).where(User.name.ilike(f"%{user_name}%")); a NULL name matches nothing
UsersByName(us, name) ==
  {i \in 1..Len(us) : us[i].name # NullSeq
                      /\ Contains(LowerStr(us[i].name), LowerStr(name))}

MostRecent_Oldest(S) == CHOOSE x \in S : \A y \in S : x <= y

\* max(users_by_name, key=lambda u: u.created_at)
MostRecent(S) == SetMax(S)

\* the row the two lookups settle on, 0 when there is none
FindUser(us, key, name) ==
  LET byKey == UsersByKey(us, key)
      byName == UsersByName(us, name)
  IN IF byKey # {} THEN CHOOSE i \in byKey : TRUE
     ELSE IF Truthy(name) /\ Cardinality(byName) = 1 THEN CHOOSE i \in byName : TRUE
     ELSE IF Truthy(name) /\ Cardinality(byName) > 1 THEN MostRecent(byName)
     ELSE 0

\* scalar_one_or_none() raises MultipleResultsFound on two rows with the key
get_or_create_user(us, key, name) ==
  IF Cardinality(UsersByKey(us, key)) > 1
  THEN [raised |-> TRUE, users |-> us, uid |-> 0]
  ELSE LET found == FindUser(us, key, name)
       IN IF found = 0
          THEN [raised |-> FALSE, users |-> Append(us, NewUser(key, name)),
                uid |-> Len(us) + 1]
          ELSE [raised |-> FALSE,
                users |-> IF name # NullSeq THEN [us EXCEPT ![found].name = name]
                          ELSE us,
                uid |-> found]

(***************************************************************************)
(* Conversation resolution: ChatService.get_or_create_conversation         *)
(***************************************************************************)
NewConversation_Consideration(uid) ==
  [user |-> uid, tenant |-> NullTok, status |-> "active", stage |-> "consideration",
   summary |-> NullTok, reason |-> NullSeq, requested_at |-> 0]

\* Conversation(user_id=user_id, status=ACTIVE, funnel_stage=AWARENESS)
NewConversation(uid) ==
  [user |-> uid, tenant |-> NullTok, status |-> "active", stage |-> "awareness",
   summary |-> NullTok, reason |-> NullSeq, requested_at |-> 0]

ConversationById_OrFirst(cs, cid) ==
  IF cid \in 1..Len(cs) THEN cid ELSE IF Len(cs) > 0 THEN 1 ELSE 0

\* select(Conversation).where(Conversation.id == conversation_id)
ConversationById(cs, cid) == IF cid \in 1..Len(cs) THEN cid ELSE 0

get_or_create_conversation(cs, uid, cid) ==
  IF cid # NoCid /\ ConversationById(cs, cid) # 0
  THEN [convs |-> cs, cid |-> cid, created |-> FALSE]
  ELSE [convs |-> Append(cs, NewConversation(uid)), cid |-> Len(cs) + 1,
        created |-> TRUE]

(***************************************************************************)
(* Persona selection: is_admin_user, ChatService._get_agent                *)
(***************************************************************************)
is_admin_user_CaseSensitive(name) ==
  /\ Truthy(name)
  /\ \E i \in 1..Len(ADMIN_KEYWORDS) : Contains(name, ADMIN_KEYWORDS[i])

is_admin_user(name) ==
  /\ Truthy(name)
  /\ \E i \in 1..Len(ADMIN_KEYWORDS) :
       Contains(LowerStr(name), LowerStr(ADMIN_KEYWORDS[i]))

get_agent(name) == IF is_admin_user(name) THEN "admin" ELSE "sales"

(***************************************************************************)
(* ChatService.save_message                                                *)
(***************************************************************************)
NewMessage(cid, role, content) ==
  [conv |-> cid, role |-> role, content |-> content, tenant |-> NullTok]

SaveMessage_Dropped(ms, cid, role, content) == ms

\* save_message: db.add(message) and db.commit()
SaveMessage(ms, cid, role, content) == Append(ms, NewMessage(cid, role, content))

IsBlocked_WrongLiteral(conversation) == conversation.status = "AWAITING_HUMAN"

\* the gate of process_message: conversation.status.value == "awaiting_human"
IsBlocked(conversation) == conversation.status = "awaiting_human"

BlockedResponse_NoReason(conversation) ==
  [response |-> [kind |-> "transferred", reason |-> conversation.reason],
   funnel_stage |-> conversation.stage,
   status |-> "awaiting_human", blocked |-> TRUE,
   handoff_reason |-> NullSeq]

\* what process_message answers on a blocked conversation
BlockedResponse(conversation) ==
  [response |-> [kind |-> "transferred", reason |-> conversation.reason],
   funnel_stage |-> conversation.stage,
   status |-> "awaiting_human", blocked |-> TRUE,
   handoff_reason |-> conversation.reason]

(***************************************************************************)
(* ChatService.process_message, up to the invocation of the agent.         *)
(* t is the tenant the request was authenticated as; the service is built  *)
(* from the session alone and takes no tenant.                             *)
(***************************************************************************)
ProcessMessage(t, key, name, cid, text) ==
  LET u == get_or_create_user(users, key, name)
      c == get_or_create_conversation(sess, u.uid, cid)
      conversation == c.convs[c.cid]
      base == [op |-> "process_message", t |-> t, text |-> text]
  IN
  /\ pc = "idle"
  /\ Len(u.users) <= MaxUsers
  /\ UNCHANGED httpVars
  /\ UNCHANGED <<resolved, invokes>>
  /\ IF u.raised
     THEN /\ last' = base @@ [outcome |-> "raised", selected |-> FALSE, cid |-> 0]
          /\ UNCHANGED <<users, convs, sess, msgs, leads, pc, run>>
     ELSE IF cid = BadCid
     THEN \* UUID(conversation_id) raises after the user was committed
          /\ users' = u.users
          /\ last' = base @@ [outcome |-> "raised", selected |-> FALSE, cid |-> 0]
          /\ UNCHANGED <<convs, sess, msgs, leads, pc, run>>
     ELSE /\ Len(c.convs) <= MaxConvs
          /\ users' = u.users
          /\ convs' = c.convs
          /\ sess' = c.convs
          /\ UNCHANGED leads
          /\ IF IsBlocked(conversation)
             THEN /\ Len(msgs) < MaxMsgs
                  /\ msgs' = SaveMessage(msgs, c.cid, "user", text)
                  /\ last' = base @@
                       [outcome |-> "blocked", selected |-> FALSE, cid |-> c.cid,
                        uid |-> u.uid] @@ BlockedResponse(conversation)
                  /\ UNCHANGED <<pc, run>>
             ELSE /\ Len(msgs) + 1 < MaxMsgs
                  /\ msgs' = SaveMessage(msgs, c.cid, "user", text)
                  /\ pc' = "agent"
                  /\ run' = [scope |-> NullTok,
                             persona |-> get_agent(u.users[u.uid].name),
                             conv |-> c.cid, user |-> u.uid,
                             viaChat |-> TRUE, calls |-> 0]
                  /\ last' = base @@
                       [outcome |-> "invoking", selected |-> TRUE, cid |-> c.cid,
                        uid |-> u.uid]

(***************************************************************************)
(* Agent runs.  SalesAgent(db, tenant_id) serves its run with the tools of *)
(* TenantToolRegistry(db, tenant_id) when tenant_id is given and with the  *)
(* legacy tools of create_sales_tools(db) otherwise; the run that          *)
(* process_message starts is always of the second kind.                    *)
(***************************************************************************)
InvokeAgent(scope) ==
  /\ pc = "idle"
  /\ invokes < MaxInvokes
  /\ UNCHANGED httpVars
  /\ invokes' = invokes + 1
  /\ pc' = "agent"
  /\ run' = [NoRun EXCEPT !.scope = scope, !.persona = "sales"]
  /\ last' = [op |-> "invoke", scope |-> scope]
  /\ UNCHANGED <<users, convs, sess, msgs, leads, resolved>>

\* the user passed to an admin-only path: uid 0 is None
NoUser == 0
NameOfUser(us, uid) == IF uid \in 1..Len(us) THEN us[uid].name ELSE NullSeq

require_admin_Skip(us, uid) == TRUE

\* require_admin(user) returns (TRUE) or raises PermissionError (FALSE)
require_admin(us, uid) == is_admin_user(NameOfUser(us, uid))

\* AdminAgent(db, user, tenant_id): require_admin(user) raises PermissionError
\* for a user who is not an admin; otherwise the agent is built, served by
\* TenantToolRegistry when a tenant is given, and invoked
InvokeAdminAgent(scope, uid) ==
  /\ pc = "idle"
  /\ invokes < MaxInvokes
  /\ uid \in {NoUser} \cup (1..Len(users))
  /\ UNCHANGED httpVars
  /\ invokes' = invokes + 1
  /\ UNCHANGED <<users, convs, sess, msgs, leads, resolved>>
  /\ IF require_admin(users, uid)
     THEN /\ pc' = "agent"
          /\ run' = [NoRun EXCEPT !.scope = scope, !.persona = "admin", !.user = uid]
          /\ last' = [op |-> "invoke_admin", scope |-> scope, uid |-> uid,
                      ok |-> TRUE, err |-> "none"]
     ELSE /\ UNCHANGED <<pc, run>>
          /\ last' = [op |-> "invoke_admin", scope |-> scope, uid |-> uid,
                      ok |-> FALSE, err |-> "PermissionError"]

\* what an analytics tool returns: the error alone, or the figures it computed
NoData == [present |-> FALSE, total |-> 0]

\* get_funnel_metrics, get_conversations_by_stage, get_common_objections,
\* get_recent_leads, get_plan_performance, called for the user the tool was
\* created with: each starts with the same admin check
AnalyticsCall(tool, uid) ==
  /\ pc = "idle"
  /\ invokes < MaxInvokes
  /\ uid \in {NoUser} \cup (1..Len(users))
  /\ UNCHANGED httpVars
  /\ invokes' = invokes + 1
  /\ UNCHANGED <<users, convs, sess, msgs, leads, pc, run, resolved>>
  /\ IF ~is_admin_user(NameOfUser(users, uid))
     THEN last' = [op |-> tool, uid |-> uid, ok |-> FALSE,
                   err |-> "Access denied. Admin privileges required.",
                   data |-> NoData]
     ELSE last' = [op |-> tool, uid |-> uid, ok |-> TRUE, err |-> "none",
                   data |-> [present |-> TRUE,
                             total |-> IF tool \in {"get_funnel_metrics",
                                                    "get_conversations_by_stage"}
                                       THEN Len(convs) ELSE Len(leads)]]

(***************************************************************************)
(* Tool sets, by the names the tools are registered under                  *)
(***************************************************************************)
create_user_tools == {"get_user_info", "create_user", "update_user_info"}
create_conversation_tools ==
  {"get_conversation_history", "update_conversation_status", "update_context_summary"}
create_message_tools == {"save_message"}
create_lead_tools == {"create_lead", "update_lead_objections"}
create_plan_tools == {"get_available_plans", "get_plan_details", "compare_plans"}
create_handoff_tools == {"request_handoff"}
create_analytics_tools ==
  {"get_funnel_metrics", "get_conversations_by_stage", "get_common_objections",
   "get_plan_performance", "get_recent_leads"}

create_sales_tools ==
  create_user_tools \cup create_conversation_tools \cup create_message_tools
    \cup create_lead_tools \cup create_plan_tools \cup create_handoff_tools

create_admin_tools ==
  create_analytics_tools \cup create_conversation_tools \cup create_message_tools

\* TenantToolRegistry.get_all_tools
get_all_tools ==
  {"get_user_info", "update_user_info", "get_conversation_history",
   "update_conversation_status", "get_plans", "create_lead", "request_handoff"}

\* the tools the agent of a run is built with: those of the registry when the
\* agent was given a tenant, the legacy set of its persona otherwise
ToolsOfRun(r) ==
  IF r.scope # NullTok THEN get_all_tools
  ELSE IF r.persona = "admin" THEN create_admin_tools
  ELSE create_sales_tools

\* a tool call of the run in progress
ToolStep == pc = "agent" /\ run.calls < MaxToolCalls

CountCall == run' = [run EXCEPT !.calls = run.calls + 1]

(***************************************************************************)
(* update_conversation_status (legacy and tenant-scoped)                   *)
(***************************************************************************)
ValidStatus(tok) == LowerTok(tok) \in ConversationStatus
ValidStage(tok) == LowerTok(tok) \in FunnelStage

\* the assignments made on the loaded row, in the order the code makes them;
\* commit says whether db.commit() was reached
ApplyStatusUpdate(ss, row, status, stage, stageErr) ==
  LET s1 == IF status # NullTok /\ ValidStatus(status)
            THEN [ss EXCEPT ![row].status = LowerTok(status)] ELSE ss
  IN IF status # NullTok /\ ~ValidStatus(status)
     THEN [sess |-> ss, commit |-> FALSE, err |-> "Invalid status"]
     ELSE IF stage # NullTok /\ ~ValidStage(stage)
     THEN [sess |-> s1, commit |-> FALSE, err |-> stageErr]
     ELSE [sess |-> IF stage # NullTok
                    THEN [s1 EXCEPT ![row].stage = LowerTok(stage)] ELSE s1,
           commit |-> TRUE, err |-> "none"]

UpdateConversationStatus(cid, status, stage) ==
  LET row == ConversationById(sess, cid)
      r == ApplyStatusUpdate(sess, row, status, stage, "Invalid funnel_stage")
      base == [op |-> "update_conversation_status", cid |-> cid, scope |-> NullTok]
  IN
  /\ ToolStep
  /\ UNCHANGED httpVars
  /\ run.scope = NullTok
  /\ CountCall
  /\ UNCHANGED <<users, msgs, leads, pc, resolved, invokes>>
  /\ IF cid = NoCid
     THEN /\ last' = base @@ [ok |-> FALSE, err |-> "Conversation ID is required"]
          /\ UNCHANGED <<convs, sess>>
     ELSE IF cid = BadCid
     THEN /\ last' = base @@ [ok |-> FALSE, err |-> "Invalid UUID format"]
          /\ UNCHANGED <<convs, sess>>
     ELSE IF row = 0
     THEN /\ last' = base @@ [ok |-> FALSE, err |-> "Conversation not found"]
          /\ UNCHANGED <<convs, sess>>
     ELSE /\ sess' = r.sess
          /\ convs' = IF r.commit THEN r.sess ELSE convs
          /\ last' = base @@ [ok |-> r.commit, err |-> r.err]

\* update_context_summary (legacy)
UpdateContextSummary(cid, summary) ==
  LET row == ConversationById(sess, cid)
      base == [op |-> "update_context_summary", cid |-> cid, scope |-> NullTok]
  IN
  /\ ToolStep
  /\ UNCHANGED httpVars
  /\ run.scope = NullTok
  /\ CountCall
  /\ UNCHANGED <<users, msgs, leads, pc, resolved, invokes>>
  /\ IF cid = NoCid
     THEN /\ last' = base @@ [ok |-> FALSE, err |-> "Conversation ID is required"]
          /\ UNCHANGED <<convs, sess>>
     ELSE IF cid = BadCid
     THEN /\ last' = base @@ [ok |-> FALSE, err |-> "Invalid UUID format"]
          /\ UNCHANGED <<convs, sess>>
     ELSE IF row = 0
     THEN /\ last' = base @@ [ok |-> FALSE, err |-> "Conversation not found"]
          /\ UNCHANGED <<convs, sess>>
     ELSE /\ sess' = [sess EXCEPT ![row].summary = summary]
          /\ convs' = [sess EXCEPT ![row].summary = summary]
          /\ last' = base @@ [ok |-> TRUE, err |-> "none"]

\* select(Conversation).where(Conversation.id == conv_uuid,
\*                            Conversation.tenant_id == tenant_id)
ConversationByIdTenant(cs, cid, t) ==
  IF cid \in 1..Len(cs) /\ cs[cid].tenant = t THEN cid ELSE 0

UpdateConversationStatusTenant(cid, status, stage) ==
  LET row == ConversationByIdTenant(sess, cid, run.scope)
      r == ApplyStatusUpdate(sess, row, status, stage, "Invalid funnel stage")
      base == [op |-> "update_conversation_status", cid |-> cid, scope |-> run.scope]
  IN
  /\ ToolStep
  /\ UNCHANGED httpVars
  /\ run.scope \in TenantIds
  /\ CountCall
  /\ UNCHANGED <<users, msgs, leads, pc, resolved, invokes>>
  /\ IF cid \in {NoCid, BadCid}
     THEN \* uuid.UUID() raises; the handler rolls the session back
          /\ last' = base @@ [ok |-> FALSE, err |-> "exception"]
          /\ sess' = convs
          /\ UNCHANGED convs
     ELSE IF row = 0
     THEN /\ last' = base @@ [ok |-> FALSE, err |-> "Conversation not found"]
          /\ UNCHANGED <<convs, sess>>
     ELSE /\ sess' = r.sess
          /\ convs' = IF r.commit THEN r.sess ELSE convs
          /\ last' = base @@ [ok |-> r.commit, err |-> r.err]

(***************************************************************************)
(* request_handoff (legacy) with its lead upsert                           *)
(***************************************************************************)
HandoffNextAction(reason) == <<"Handoff solicitado: ">> \o reason

SignalsClosing_CaseSensitive(reason) ==
  Contains(reason, WordPronto) \/ Contains(reason, WordFechar)

\* "pronto" in reason.lower() or "fechar" in reason.lower()
SignalsClosing(reason) ==
  Contains(LowerStr(reason), WordPronto) \/ Contains(LowerStr(reason), WordFechar)

HandoffLeadStage(stage, reason) ==
  IF stage \in {"negotiation", "closed_won"}
  THEN (IF SignalsClosing(reason) THEN "hot" ELSE "qualified")
  ELSE "warm"

HandoffScore(stage, reason) ==
  IF stage \in {"negotiation", "closed_won"}
  THEN (IF HandoffLeadStage(stage, reason) = "hot" THEN 80 ELSE 70)
  ELSE IF stage = "consideration" THEN 60
  ELSE 50

Max2(a, b) == IF a >= b THEN a ELSE b

MergeScore_Overwrite(old, new) == new

\* existing_lead.score = max(existing_lead.score, score)
MergeScore(old, new) == Max2(old, new)

\* select(Lead).where(Lead.conversation_id == conv_uuid)
LeadsOfConversation(ls, cid) == {i \in 1..Len(ls) : ls[i].conv = cid}

UpsertHandoffLead(ls, cid, conversation, reason) ==
  LET existing == LeadsOfConversation(ls, cid)
      stage == HandoffLeadStage(conversation.stage, reason)
      score == HandoffScore(conversation.stage, reason)
  IN IF existing # {}
     THEN LET l == CHOOSE i \in existing : TRUE
          IN [ls EXCEPT ![l].stage = stage,
                        ![l].score = MergeScore(ls[l].score, score),
                        ![l].next_action = HandoffNextAction(reason)]
     ELSE Append(ls, [conv |-> cid, user |-> conversation.user, tenant |-> NullTok,
                      stage |-> stage, score |-> score,
                      next_action |-> HandoffNextAction(reason)])

MarkHandoff(ss, row, reason, summary) ==
  [ss EXCEPT ![row].status = "awaiting_human", ![row].reason = reason,
             ![row].requested_at = 1, ![row].summary = summary]

\* messages the run still has to store after this call
Reserved == IF run.viaChat THEN 1 ELSE 0

RequestHandoff(cid, reason, summary) ==
  LET row == ConversationById(sess, cid)
      s1 == MarkHandoff(sess, row, reason, summary)
      ls == UpsertHandoffLead(leads, cid, s1[row], reason)
      base == [op |-> "request_handoff", cid |-> cid, scope |-> NullTok,
               reason |-> reason, summary |-> summary]
  IN
  /\ ToolStep
  /\ UNCHANGED httpVars
  /\ run.scope = NullTok
  /\ run.persona = "sales"
  /\ CountCall
  /\ UNCHANGED <<users, pc, resolved, invokes>>
  /\ IF cid \in {NoCid, BadCid}
     THEN \* uuid.UUID() raises; the handler rolls the session back
          /\ last' = base @@ [ok |-> FALSE, err |-> "exception"]
          /\ sess' = convs
          /\ UNCHANGED <<convs, msgs, leads>>
     ELSE IF row = 0
     THEN /\ last' = base @@ [ok |-> FALSE, err |-> "Conversation not found"]
          /\ UNCHANGED <<convs, sess, msgs, leads>>
     ELSE IF Cardinality(LeadsOfConversation(leads, cid)) > 1
     THEN \* scalar_one_or_none() raises MultipleResultsFound
          /\ last' = base @@ [ok |-> FALSE, err |-> "exception"]
          /\ sess' = convs
          /\ UNCHANGED <<convs, msgs, leads>>
     ELSE /\ Len(msgs) + 1 + Reserved <= MaxMsgs
          /\ Len(ls) <= MaxLeads
          /\ sess' = s1
          /\ convs' = s1
          /\ msgs' = Append(msgs, NewMessage(cid, "system", "handoff"))
          /\ leads' = ls
          /\ last' = base @@ [ok |-> TRUE, err |-> "none"]

(***************************************************************************)
(* TenantToolRegistry._request_handoff_tenant(conversation_id, reason)     *)
(***************************************************************************)
MarkHandoffTenant(ss, row, reason) ==
  [ss EXCEPT ![row].status = "awaiting_human", ![row].reason = reason,
             ![row].requested_at = 1]

RequestHandoffTenant(cid, reason) ==
  LET row == ConversationByIdTenant(sess, cid, run.scope)
      s1 == MarkHandoffTenant(sess, row, reason)
      base == [op |-> "request_handoff", cid |-> cid, scope |-> run.scope,
               reason |-> reason]
  IN
  /\ ToolStep
  /\ UNCHANGED httpVars
  /\ run.scope \in TenantIds
  /\ CountCall
  /\ UNCHANGED <<users, msgs, leads, pc, resolved, invokes>>
  /\ IF cid \in {NoCid, BadCid}
     THEN /\ last' = base @@ [ok |-> FALSE, err |-> "exception"]
          /\ sess' = convs
          /\ UNCHANGED convs
     ELSE IF row = 0
     THEN /\ last' = base @@ [ok |-> FALSE, err |-> "Conversation not found"]
          /\ UNCHANGED <<convs, sess>>
     ELSE /\ sess' = s1
          /\ convs' = s1
          /\ last' = base @@ [ok |-> TRUE, err |-> "none"]

(***************************************************************************)
(* create_lead (legacy) and TenantToolRegistry._create_lead_tenant          *)
(***************************************************************************)
\* user_id inputs: 0 is a malformed id, k > 0 a well-formed UUID
BadUid == 0
UidInputs == {BadUid} \cup (1..MaxUsers)

ValidLeadStage(tok) == LowerTok(tok) \in LeadStage

\* if score is None: score = 0
ScoreOrZero(score) == IF score = NoScore THEN 0 ELSE score

\* not isinstance(score, int) or score < 0 or score > 100
ScoreRejected(score) == score < 0 \/ score > 100

\* the foreign keys of a new Lead row name stored rows
LeadRefsExist(cid, uid) == cid \in 1..Len(sess) /\ uid \in 1..Len(users)

CreateLead(cid, uid, stage, score) ==
  LET sc == ScoreOrZero(score)
      existing == LeadsOfConversation(leads, cid)
      base == [op |-> "create_lead", cid |-> cid, scope |-> NullTok]
      fail(e) == /\ last' = base @@ [ok |-> FALSE, err |-> e]
                 /\ UNCHANGED <<convs, sess, leads>>
      raise == /\ last' = base @@ [ok |-> FALSE, err |-> "exception"]
               /\ sess' = convs
               /\ UNCHANGED <<convs, leads>>
  IN
  /\ ToolStep
  /\ UNCHANGED httpVars
  /\ run.scope = NullTok
  /\ run.persona = "sales"
  /\ CountCall
  /\ UNCHANGED <<users, msgs, pc, resolved, invokes>>
  /\ IF cid = NoCid THEN fail("Conversation ID and User ID are required")
     ELSE IF ScoreRejected(sc) THEN fail("Score must be an integer between 0 and 100")
     ELSE IF cid = BadCid \/ uid = BadUid THEN fail("Invalid UUID format")
     ELSE IF Cardinality(existing) > 1 THEN raise
     ELSE IF ~ValidLeadStage(stage) THEN fail("Invalid stage")
     ELSE IF existing # {}
     THEN LET l == CHOOSE i \in existing : TRUE
          IN /\ leads' = [leads EXCEPT ![l].stage = LowerTok(stage), ![l].score = sc]
             /\ convs' = sess
             /\ UNCHANGED sess
             /\ last' = base @@ [ok |-> TRUE, err |-> "none"]
     ELSE IF ~LeadRefsExist(cid, uid) THEN raise
     ELSE /\ Len(leads) < MaxLeads
          /\ leads' = Append(leads, [conv |-> cid, user |-> uid, tenant |-> NullTok,
                                     stage |-> LowerTok(stage), score |-> sc,
                                     next_action |-> NullSeq])
          /\ convs' = sess
          /\ UNCHANGED sess
          /\ last' = base @@ [ok |-> TRUE, err |-> "none"]

\* select(Lead).where(Lead.conversation_id == conv_uuid, Lead.tenant_id == tenant_id)
LeadsOfConversationTenant(ls, cid, t) ==
  {i \in 1..Len(ls) : ls[i].conv = cid /\ ls[i].tenant = t}

CreateLeadTenant(cid, uid, stage, score) ==
  LET sc == ScoreOrZero(score)
      existing == LeadsOfConversationTenant(leads, cid, run.scope)
      base == [op |-> "create_lead", cid |-> cid, scope |-> run.scope]
      raise == /\ last' = base @@ [ok |-> FALSE, err |-> "exception"]
               /\ sess' = convs
               /\ UNCHANGED <<convs, leads>>
  IN
  /\ ToolStep
  /\ UNCHANGED httpVars
  /\ run.scope \in TenantIds
  /\ CountCall
  /\ UNCHANGED <<users, msgs, pc, resolved, invokes>>
  /\ IF cid \in {NoCid, BadCid} \/ uid = BadUid THEN raise
     ELSE IF Cardinality(existing) > 1 THEN raise
     ELSE IF ~ValidLeadStage(stage) THEN raise
     ELSE IF existing # {}
     THEN LET l == CHOOSE i \in existing : TRUE
          IN /\ leads' = [leads EXCEPT ![l].stage = LowerTok(stage), ![l].score = sc]
             /\ convs' = sess
             /\ UNCHANGED sess
             /\ last' = base @@ [ok |-> TRUE, err |-> "none"]
     ELSE IF ~LeadRefsExist(cid, uid) THEN raise
     ELSE /\ Len(leads) < MaxLeads
          /\ leads' = Append(leads, [conv |-> cid, user |-> uid, tenant |-> run.scope,
                                     stage |-> LowerTok(stage), score |-> sc,
                                     next_action |-> NullSeq])
          /\ convs' = sess
          /\ UNCHANGED sess
          /\ last' = base @@ [ok |-> TRUE, err |-> "none"]

\* TenantToolRegistry._get_conversation_history_tenant: the rows it returns
HistoryTenant(ms, cid, t) ==
  {i \in 1..Len(ms) : ms[i].conv = cid /\ ms[i].tenant = t}

GetConversationHistoryTenant(cid) ==
  LET base == [op |-> "get_conversation_history", cid |-> cid, scope |-> run.scope]
  IN
  /\ ToolStep
  /\ UNCHANGED httpVars
  /\ run.scope \in TenantIds
  /\ CountCall
  /\ UNCHANGED <<users, convs, sess, msgs, leads, pc, resolved, invokes>>
  /\ IF cid \in {NoCid, BadCid}
     THEN last' = base @@ [ok |-> FALSE, err |-> "exception", rows |-> {}]
     ELSE last' = base @@ [ok |-> TRUE, err |-> "none",
                           rows |-> HistoryTenant(msgs, cid, run.scope)]

(***************************************************************************)
(* End of the run: process_message stores the reply and answers; get_db    *)
(* commits the session when the request returns.                           *)
(***************************************************************************)
AgentOutputs == {"reply"}

AgentReturn(output) ==
  /\ pc = "agent"
  /\ pc' = "idle"
  /\ UNCHANGED httpVars
  /\ run' = NoRun
  /\ convs' = sess
  /\ UNCHANGED <<users, sess, leads, resolved, invokes>>
  /\ IF run.viaChat
     THEN /\ msgs' = SaveMessage(msgs, run.conv, "assistant", output)
          /\ last' = [op |-> "agent_return", viaChat |-> TRUE, cid |-> run.conv,
                      uid |-> run.user, response |-> output,
                      funnel_stage |-> sess[run.conv].stage,
                      status |-> sess[run.conv].status]
     ELSE /\ UNCHANGED msgs
          /\ last' = [op |-> "agent_return", viaChat |-> FALSE]

\* the outputs SalesAgent.invoke returns for a failure it classifies
FailureOutputs == {"parse_error", "rate_limit"}

\* the exception classes SalesAgent.invoke tells apart, and the texts they carry
FailureClasses ==
  {"OutputParserException", "RateLimitError", "APITimeoutError", "APIError", "Exception"}
ExcTexts == {"boom", "quota"}

InvokeFailure_RawText(class, text) == text

\* the "output" of the dict an except branch of invoke returns; the text of
\* the exception goes to the log and to the dict's "error" entry only
InvokeFailure(class, text) ==
  CASE class = "OutputParserException" -> "parse_error"
    [] class = "RateLimitError" -> "rate_limit"
    [] class = "APITimeoutError" -> "timeout"
    [] class = "APIError" -> "provider_error"
    [] OTHER -> "unexpected_error"

\* the agent fails inside invoke: its except branch answers, and
\* process_message stores and returns that output like any reply
AgentFail(class, text) == AgentReturn(InvokeFailure(class, text))

\* an exception after the user message was saved: process_message re-raises
\* it, the endpoint answers 500 and the request's session is discarded with
\* whatever it had not committed
AgentAbort ==
  /\ pc = "agent"
  /\ run.viaChat
  /\ pc' = "idle"
  /\ run' = NoRun
  /\ sess' = convs
  /\ last' = [op |-> "agent_abort", cid |-> run.conv, uid |-> run.user]
  /\ UNCHANGED <<users, convs, msgs, leads, resolved, invokes>>
  /\ UNCHANGED httpVars

(***************************************************************************)
(* Migration 002, step 4: rows without a tenant go to the default tenant   *)
(***************************************************************************)
BackfillRows(rows) ==
  [i \in 1..Len(rows) |->
     IF rows[i].tenant = NullTok THEN [rows[i] EXCEPT !.tenant = DefaultTenant]
     ELSE rows[i]]

Backfill ==
  /\ pc = "idle"
  /\ \E i \in 1..Len(convs) : convs[i].tenant = NullTok
  /\ UNCHANGED httpVars
  /\ users' = BackfillRows(users)
  /\ convs' = BackfillRows(convs)
  /\ sess' = BackfillRows(convs)
  /\ msgs' = BackfillRows(msgs)
  /\ leads' = BackfillRows(leads)
  /\ last' = [op |-> "backfill"]
  /\ UNCHANGED <<pc, run, resolved, invokes>>

\* the chat path: process_message and the legacy tools of the run it starts
Next ==
  \/ \E t \in TenantIds, key \in ChatKeys, name \in ChatNames,
        cid \in CidInputs, text \in Texts :
       ProcessMessage(t, key, name, cid, text)
  \/ \E cid \in CidInputs, status \in StatusTokens, stage \in StageTokens :
       UpdateConversationStatus(cid, status, stage)
  \/ \E cid \in CidInputs, reason \in Reasons, summary \in Summaries :
       RequestHandoff(cid, reason, summary)
  \/ \E output \in AgentOutputs : AgentReturn(output)
  \/ Backfill

Spec == Init /\ [][Next]_vars

\* agent runs served by the tenant tool registry, on conversations that the
\* chat path created
NextTenant ==
  \/ \E key \in ChatKeys, cid \in CidInputs, text \in Texts :
       ProcessMessage(NullTok, key, NullSeq, cid, text)
  \/ \E scope \in TenantIds : InvokeAgent(scope)
  \/ \E cid \in CidInputs, status \in StatusTokens, stage \in StageTokens :
       UpdateConversationStatusTenant(cid, status, stage)
  \/ \E cid \in CidInputs, reason \in Reasons : RequestHandoffTenant(cid, reason)
  \/ \E output \in AgentOutputs : AgentReturn(output)
  \/ Backfill

SpecTenant == Init /\ [][NextTenant]_vars

\* handoffs of a conversation moved through the funnel
NextFunnel ==
  \/ \E key \in ChatKeys, text \in Texts :
       ProcessMessage(NullTok, key, NullSeq, LeadCid, text)
  \/ \E stage \in FunnelTokens : UpdateConversationStatus(LeadCid, NullTok, stage)
  \/ \E reason \in LeadReasons : RequestHandoff(LeadCid, reason, "s1")
  \/ \E output \in AgentOutputs : AgentReturn(output)

SpecFunnel == Init /\ [][NextFunnel]_vars

\* a conversation that is opened, handed off by the agent and written to again
NextHandoff ==
  \/ \E key \in ChatKeys, cid \in {NoCid, LeadCid}, text \in Texts :
       ProcessMessage(NullTok, key, NullSeq, cid, text)
  \/ \E stage \in FunnelTokens : UpdateConversationStatus(LeadCid, NullTok, stage)
  \/ \E reason \in HandoffReasons : RequestHandoff(LeadCid, reason, "s1")
  \/ \E output \in AgentOutputs : AgentReturn(output)

SpecHandoff == Init /\ [][NextHandoff]_vars

\* two users, of whom one sends the conversation id of the other
OwnerKeys == {"k1", "k2"}

NextOwner ==
  \/ \E key \in OwnerKeys, cid \in {NoCid, LeadCid}, text \in Texts :
       ProcessMessage(NullTok, key, NullSeq, cid, text)
  \/ \E stage \in FunnelTokens : UpdateConversationStatus(LeadCid, NullTok, stage)
  \/ RequestHandoff(LeadCid, ReasonOk, "s1")
  \/ \E output \in AgentOutputs : AgentReturn(output)

SpecOwner == Init /\ [][NextOwner]_vars

\* the outcomes of a chat request: a reply, a classified failure, an abort
NextOutcome ==
  \/ \E key \in ChatKeys, cid \in {NoCid, LeadCid}, text \in Texts :
       ProcessMessage(NullTok, key, NullSeq, cid, text)
  \/ \E stage \in StageTokens : UpdateConversationStatus(LeadCid, "converted", stage)
  \/ RequestHandoff(LeadCid, ReasonOk, "s1")
  \/ \E output \in AgentOutputs \cup FailureOutputs : AgentReturn(output)
  \/ AgentAbort

SpecOutcome == Init /\ [][NextOutcome]_vars

\* chat requests that rename the user between messages
NextPersona ==
  \/ \E key \in ChatKeys, name \in PersonaNames, cid \in {NoCid, LeadCid}, text \in Texts :
       ProcessMessage(NullTok, key, name, cid, text)
  \/ \E output \in AgentOutputs : AgentReturn(output)
  \/ AgentAbort

SpecPersona == Init /\ [][NextPersona]_vars

\* runs of both personas, in legacy mode and with a tenant
NextTools ==
  \/ \E key \in ChatKeys, name \in ChatNames, cid \in {NoCid, LeadCid}, text \in Texts :
       ProcessMessage(NullTok, key, name, cid, text)
  \/ \E scope \in TenantIds : InvokeAgent(scope)
  \/ \E scope \in TenantIds, uid \in 1..MaxUsers : InvokeAdminAgent(scope, uid)
  \/ \E summary \in Summaries : UpdateContextSummary(LeadCid, summary)
  \/ \E output \in AgentOutputs : AgentReturn(output)

SpecTools == Init /\ [][NextTools]_vars

\* the admin-only paths, entered for admins and for everybody else
NextAdmin ==
  \/ \E key \in ChatKeys, name \in PersonaNames, cid \in {NoCid, LeadCid}, text \in Texts :
       ProcessMessage(NullTok, key, name, cid, text)
  \/ \E scope \in {NullTok} \cup TenantIds, uid \in 0..MaxUsers : InvokeAdminAgent(scope, uid)
  \/ \E tool \in create_analytics_tools, uid \in 0..MaxUsers : AnalyticsCall(tool, uid)
  \/ \E output \in AgentOutputs : AgentReturn(output)

SpecAdmin == Init /\ [][NextAdmin]_vars

\* chat requests whose agent call succeeds, fails inside invoke, or aborts
NextFailure ==
  \/ \E key \in ChatKeys, cid \in {NoCid, LeadCid}, text \in Texts :
       ProcessMessage(NullTok, key, NullSeq, cid, text)
  \/ \E output \in AgentOutputs : AgentReturn(output)
  \/ \E class \in FailureClasses, text \in ExcTexts : AgentFail(class, text)
  \/ AgentAbort

SpecFailure == Init /\ [][NextFailure]_vars

\* the legacy tools that update a conversation, called with any id
NextUpdate ==
  \/ \E key \in ChatKeys, cid \in {NoCid, LeadCid}, text \in Texts :
       ProcessMessage(NullTok, key, NullSeq, cid, text)
  \/ \E cid \in CidInputs, stage \in StageTokens :
       UpdateConversationStatus(cid, "converted", stage)
  \/ \E cid \in CidInputs, summary \in Summaries : UpdateContextSummary(cid, summary)
  \/ \E cid \in CidInputs : RequestHandoff(cid, ReasonOk, "s1")
  \/ \E output \in AgentOutputs : AgentReturn(output)

SpecUpdate == Init /\ [][NextUpdate]_vars

\* lead capture by both kinds of run and by handoff
NextLead ==
  \/ \E key \in ChatKeys, text \in Texts :
       ProcessMessage(NullTok, key, NullSeq, LeadCid, text)
  \/ \E scope \in TenantIds : InvokeAgent(scope)
  \/ RequestHandoff(LeadCid, ReasonOk, "s1")
  \/ \E cid \in CidInputs, uid \in UidInputs, stage \in LeadStageTokens,
        score \in ScoreInputs : CreateLead(cid, uid, stage, score)
  \/ \E cid \in CidInputs, uid \in UidInputs, stage \in LeadStageTokens,
        score \in ScoreInputs : CreateLeadTenant(cid, uid, stage, score)
  \/ \E cid \in CidInputs : GetConversationHistoryTenant(cid)
  \/ \E output \in AgentOutputs : AgentReturn(output)
  \/ Backfill

SpecLead == Init /\ [][NextLead]_vars

(***************************************************************************)
(* TenantMiddleware: dispatch and _validate_tenant_headers                 *)
(***************************************************************************)
PathRoot == <<"/">>
PathHealth == <<"/", "h", "e", "a", "l", "t", "h">>
PathDocs == <<"/", "d", "o", "c", "s">>
PathChat == <<"/", "a", "p", "i", "/", "v", "1", "/", "c", "h", "a", "t">>
Paths == {PathRoot, PathHealth, PathDocs, PathChat}

EXCLUDED_PATHS ==
  << <<"/">>,
     <<"/", "h", "e", "a", "l", "t", "h">>,
     <<"/", "d", "o", "c", "s">>,
     <<"/", "r", "e", "d", "o", "c">>,
     <<"/", "o", "p", "e", "n", "a", "p", "i", ".", "j", "s", "o", "n">>,
     <<"/", "s", "t", "a", "t", "i", "c">> >>

Methods == {"POST", "OPTIONS"}
SlugHeaders == {NullTok, "workhub", "acme", "ghost"}
KeyHeaders == {NullTok, "key-w", "key-a"}

\* any(request.url.path.startswith(path) for path in self.EXCLUDED_PATHS)
IsExcluded(path) ==
  \E i \in 1..Len(EXCLUDED_PATHS) : StartsWith(path, EXCLUDED_PATHS[i])

\* the status _validate_tenant_headers raises with, 200 when it returns the tenant
ValidateTenantHeaders(ts, slug, key) ==
  IF slug = NullTok THEN 400
  ELSE IF key = NullTok THEN 400
  ELSE IF slug \notin DOMAIN ts THEN 404
  ELSE IF ts[slug].status # "active" THEN 403
  ELSE IF ~ts[slug].is_active THEN 403
  ELSE IF ts[slug].api_key_hash = NoHash THEN 403
  ELSE IF ~CheckPw(key, ts[slug].api_key_hash) THEN 401
  ELSE 200

\* the middleware's verdict on a request: pass it on (with the tenant it
\* attached, NULL when it attached none) or answer it itself
Verdict(mt, ts, method, path, slug, key) ==
  IF IsExcluded(path) THEN [handler |-> TRUE, tenant |-> NullTok]
  ELSE IF method = "OPTIONS" THEN [handler |-> TRUE, tenant |-> NullTok]
  ELSE IF mt
  THEN (IF ValidateTenantHeaders(ts, slug, key) = 200
        THEN [handler |-> TRUE, tenant |-> slug]
        ELSE [handler |-> FALSE, status |-> ValidateTenantHeaders(ts, slug, key)])
  ELSE IF DefaultTenant \in DOMAIN ts
  THEN [handler |-> TRUE, tenant |-> DefaultTenant]
  ELSE [handler |-> FALSE, status |-> 500]

Dispatch(method, path, slug, key) ==
  /\ http' = [method |-> method, path |-> path, slug |-> slug, key |-> key] @@
             Verdict(MULTI_TENANT_ENABLED, tenants, method, path, slug, key)
  /\ UNCHANGED <<tenants, MULTI_TENANT_ENABLED>>
  /\ UNCHANGED <<contentVars, flights>>
  /\ UNCHANGED coreVars

\* DELETE /admin/tenants/{tenant_slug}: soft delete
DeleteTenant(slug) ==
  /\ slug \in DOMAIN tenants
  /\ tenants' = [tenants EXCEPT ![slug].is_active = FALSE,
                                ![slug].status = "cancelled"]
  /\ UNCHANGED <<http, MULTI_TENANT_ENABLED>>
  /\ UNCHANGED <<contentVars, flights>>
  /\ UNCHANGED coreVars

\* TenantUpdate: the optional fields of the request body, NULL when left out;
\* expires_at is a time before ("past") or after ("future") the requests' time
StatusUpdates == {NullTok, "active", "suspended"}
ActiveUpdates == {NullTok, "true", "false"}
ExpiryUpdates == {NullTok, "past", "future"}

\* TenantResponse.from_orm(tenant): the fields of the response schema, read off
\* the row; the row's other columns are not part of the schema
TenantResponse_WithHash(slug, row) ==
  [slug |-> slug, api_key_prefix |-> row.api_key_prefix, status |-> row.status,
   is_active |-> row.is_active, expires_at |-> row.expires_at,
   api_key_hash |-> row.api_key_hash]

TenantResponse(slug, row) ==
  [slug |-> slug, api_key_prefix |-> row.api_key_prefix, status |-> row.status,
   is_active |-> row.is_active, expires_at |-> row.expires_at]

\* TenantWithApiKey(**tenant.__dict__, api_key=api_key)
TenantWithApiKey(slug, row, api_key) ==
  TenantResponse(slug, row) @@ [api_key |-> api_key]

\* PUT /admin/tenants/{tenant_slug}
UpdateTenant(slug, status, active, expires) ==
  /\ slug \in DOMAIN tenants
  /\ tenants' =
       [tenants EXCEPT
          ![slug].status = IF status # NullTok THEN status ELSE @,
          ![slug].is_active = IF active # NullTok THEN active = "true" ELSE @,
          ![slug].expires_at = IF expires # NullTok THEN expires ELSE @]
  /\ last' = [op |-> "update_tenant", slug |-> slug, status |-> 200,
              response |-> TenantResponse(slug, tenants'[slug])]
  /\ UNCHANGED <<http, MULTI_TENANT_ENABLED>>
  /\ UNCHANGED <<contentVars, flights>>
  /\ UNCHANGED <<users, convs, sess, msgs, leads, pc, run, resolved, invokes>>

\* slugs a create request may carry: one that is free and one that is taken
CreateSlugs == {"newco", "acme"}

\* tenant_data.slug[:2]
SlugHead(slug) ==
  CASE slug = "newco" -> <<"n", "e">>
    [] slug = "acme" -> <<"a", "c">>
    [] OTHER -> <<"w", "o">>

\* uuid.uuid4().hex[:32], character by character; the model keeps the first
\* seven characters of it
HexInputs == {<<"1", "a", "2", "b", "3", "c", "4">>,
              <<"f", "f", "0", "0", "f", "f", "0">>}

\* api_key = f"{tenant_data.slug[:2]}_{uuid.uuid4().hex[:32]}"
GenerateApiKey(slug, hex) == SlugHead(slug) \o <<"_">> \o hex

PrefixLen == 8

\* api_key_prefix = api_key[:8]
ApiKeyPrefix(api_key) ==
  SubSeq(api_key, 1, IF Len(api_key) < PrefixLen THEN Len(api_key) ELSE PrefixLen)

\* POST /admin/tenants
CreateTenant(slug, hex, status) ==
  LET api_key == GenerateApiKey(slug, hex)
      row == [status |-> status, is_active |-> TRUE,
              api_key_hash |-> HashOf(api_key),
              api_key_prefix |-> ApiKeyPrefix(api_key), expires_at |-> NullTok]
  IN
  /\ UNCHANGED <<http, MULTI_TENANT_ENABLED>>
  /\ UNCHANGED <<contentVars, flights>>
  /\ UNCHANGED <<users, convs, sess, msgs, leads, pc, run, resolved, invokes>>
  /\ IF slug \in DOMAIN tenants
     THEN /\ last' = [op |-> "create_tenant", slug |-> slug, status |-> 400]
          /\ UNCHANGED tenants
     ELSE /\ tenants' = [s \in DOMAIN tenants \cup {slug} |->
                           IF s = slug THEN row ELSE tenants[s]]
          /\ last' = [op |-> "create_tenant", slug |-> slug, status |-> 200,
                      response |-> TenantWithApiKey(slug, row, api_key)]

\* GET /admin/tenants/{tenant_slug}
GetTenant(slug) ==
  /\ UNCHANGED httpVars
  /\ UNCHANGED <<users, convs, sess, msgs, leads, pc, run, resolved, invokes>>
  /\ IF slug \notin DOMAIN tenants
     THEN last' = [op |-> "get_tenant", slug |-> slug, status |-> 404]
     ELSE last' = [op |-> "get_tenant", slug |-> slug, status |-> 200,
                   response |-> TenantResponse(slug, tenants[slug])]

\* GET /admin/tenants
ListTenants ==
  /\ UNCHANGED httpVars
  /\ UNCHANGED <<users, convs, sess, msgs, leads, pc, run, resolved, invokes>>
  /\ last' = [op |-> "list_tenants", status |-> 200,
              response |-> {TenantResponse(s, tenants[s]) : s \in DOMAIN tenants}]

NextSecret ==
  \/ \E slug \in CreateSlugs, hex \in HexInputs, status \in {"active", "trial"} :
       CreateTenant(slug, hex, status)
  \/ \E slug \in CreateSlugs : GetTenant(slug)
  \/ ListTenants
  \/ \E slug \in CreateSlugs, status \in StatusUpdates, active \in ActiveUpdates,
        expires \in ExpiryUpdates : UpdateTenant(slug, status, active, expires)
  \/ \E slug \in CreateSlugs : slug \in DOMAIN tenants /\ DeleteTenant(slug)

InitSecret == InitCore /\ MULTI_TENANT_ENABLED \in BOOLEAN

SpecSecret == InitSecret /\ [][NextSecret]_vars

InitHttp == InitCore /\ MULTI_TENANT_ENABLED \in BOOLEAN

NextHttp ==
  \/ \E method \in Methods, path \in Paths, slug \in SlugHeaders, key \in KeyHeaders :
       Dispatch(method, path, slug, key)
  \/ \E slug \in TenantSlugs : DeleteTenant(slug)

SpecHttp == InitHttp /\ [][NextHttp]_vars

\* tenant = await self._validate_tenant_headers(request): the call on its own,
\* as dispatch makes it in multi-tenant mode; it returns the tenant (status 200)
\* or raises TenantAuthenticationError with a status code
ResolveTenant(slug, key) ==
  LET code == ValidateTenantHeaders(tenants, slug, key)
  IN
  /\ MULTI_TENANT_ENABLED
  /\ pc = "idle"
  /\ last' = [op |-> "validate_tenant_headers", slug |-> slug, key |-> key,
              status |-> code, tenant |-> IF code = 200 THEN slug ELSE NullTok]
  /\ UNCHANGED <<users, convs, sess, msgs, leads, pc, run, resolved, invokes>>
  /\ UNCHANGED httpVars

InitResolve == InitCore /\ MULTI_TENANT_ENABLED = TRUE

NextResolve ==
  \/ \E slug \in SlugHeaders, key \in KeyHeaders : ResolveTenant(slug, key)
  \/ \E slug \in TenantSlugs : DeleteTenant(slug)
  \/ \E slug \in TenantSlugs, status \in StatusUpdates, active \in ActiveUpdates,
        expires \in ExpiryUpdates : UpdateTenant(slug, status, active, expires)

SpecResolve == InitResolve /\ [][NextResolve]_vars

(***************************************************************************)
(* Chat requests served side by side.  Every request has a session of its  *)
(* own (get_db); what a session commits is visible to the others at once.  *)
(* A select in a session that already holds the row either refreshes the   *)
(* object or keeps its attributes, depending on whether the last commit    *)
(* expired it; an UPDATE carries the columns whose assigned value differs  *)
(* from the attribute the object held.                                     *)
(***************************************************************************)
\* TenantMiddleware.dispatch on a path that is validated: the tenant is loaded
\* in a session of the middleware, checked, put on request.state, and the
\* request goes on to its handler
TenantValidated(w, slug, key) ==
  LET code == ValidateTenantHeaders(tenants, slug, key)
  IN
  /\ MULTI_TENANT_ENABLED
  /\ flights[w].pc = "idle"
  /\ flights' = IF code = 200
                THEN [flights EXCEPT ![w].pc = "validated", ![w].tenant = slug]
                ELSE flights
  /\ last' = [op |-> "tenant_middleware", w |-> w, slug |-> slug, status |-> code]
  /\ UNCHANGED <<users, convs, sess, msgs, leads, pc, run, resolved, invokes>>
  /\ UNCHANGED <<tenants, http, MULTI_TENANT_ENABLED, contentVars>>

\* where a request is when its handler starts
EntryPc == IF MULTI_TENANT_ENABLED THEN "validated" ELSE "idle"

\* process_message of worker w up to the invocation of the agent, for requests
\* whose user and conversation id resolve without an exception
ProcessMessageBy(w, key, cid, text) ==
  LET f == flights[w]
      u == get_or_create_user(users, key, NullSeq)
      c == get_or_create_conversation(convs, u.uid, cid)
      conversation == c.convs[c.cid]
      base == [op |-> "process_message", w |-> w, t |-> f.tenant, text |-> text,
               cid |-> c.cid, uid |-> u.uid]
  IN
  /\ f.pc = EntryPc
  /\ ~u.raised
  /\ cid # BadCid
  /\ Len(u.users) <= MaxUsers
  /\ Len(c.convs) <= MaxConvs
  /\ Len(msgs) < MaxMsgs
  /\ users' = u.users
  /\ convs' = c.convs
  /\ sess' = c.convs
  /\ msgs' = SaveMessage(msgs, c.cid, "user", text)
  /\ UNCHANGED <<leads, pc, run, resolved, invokes>>
  /\ UNCHANGED <<tenants, http, MULTI_TENANT_ENABLED, contentVars>>
  /\ IF IsBlocked(conversation)
     THEN /\ flights' = [flights EXCEPT ![w] = NoFlight]
          /\ last' = base @@ [outcome |-> "blocked", selected |-> FALSE]
                           @@ BlockedResponse(conversation)
     ELSE /\ flights' = [flights EXCEPT ![w] =
                            [NoFlight EXCEPT !.pc = "agent", !.tenant = f.tenant,
                                             !.conv = c.cid, !.user = u.uid,
                                             !.view = conversation]]
          /\ last' = base @@ [outcome |-> "invoking", selected |-> TRUE]

\* the Conversation object of w's session after select(Conversation)
Seen(w) == {flights[w].view, convs[flights[w].conv]}

\* the column after the commit: the UPDATE carries it when the assigned value
\* differs from the attribute the object held
Write(db, seen, v) == IF v # seen THEN v ELSE db

\* update_conversation_status called by the agent of worker w with tokens the
\* enums accept
UpdateConversationStatusBy(w, status, stage) ==
  LET f == flights[w]
      cid == f.conv
  IN
  /\ f.pc = "agent"
  /\ ~f.looked
  /\ f.calls < MaxToolCalls
  /\ status = NullTok \/ ValidStatus(status)
  /\ stage = NullTok \/ ValidStage(stage)
  /\ \E seen \in Seen(w) :
       LET row == [convs[cid] EXCEPT
                     !.status = IF status # NullTok
                                THEN Write(@, seen.status, LowerTok(status)) ELSE @,
                     !.stage = IF stage # NullTok
                               THEN Write(@, seen.stage, LowerTok(stage)) ELSE @]
       IN /\ convs' = [convs EXCEPT ![cid] = row]
          /\ sess' = [convs EXCEPT ![cid] = row]
          /\ flights' = [flights EXCEPT ![w].calls = @ + 1, ![w].view = row]
          /\ last' = [op |-> "update_conversation_status", w |-> w, cid |-> cid,
                      ok |-> TRUE, status |-> row.status, stage |-> row.stage]
  /\ UNCHANGED <<users, msgs, leads, pc, run, resolved, invokes>>
  /\ UNCHANGED <<tenants, http, MULTI_TENANT_ENABLED, contentVars>>

\* request_handoff of worker w up to the answer of select(Lead): the
\* conversation is loaded and marked in the session, nothing is committed
HandoffLookupBy(w, reason) ==
  LET f == flights[w]
      rows == LeadsOfConversation(leads, f.conv)
  IN
  /\ f.pc = "agent"
  /\ ~f.looked
  /\ f.calls < MaxToolCalls
  /\ UNCHANGED <<users, convs, sess, msgs, leads, pc, run, resolved, invokes>>
  /\ UNCHANGED <<tenants, http, MULTI_TENANT_ENABLED, contentVars>>
  /\ IF Cardinality(rows) > 1
     THEN \* scalar_one_or_none() raises MultipleResultsFound
          /\ flights' = [flights EXCEPT ![w].calls = @ + 1]
          /\ last' = [op |-> "request_handoff", w |-> w, cid |-> f.conv,
                      reason |-> reason, ok |-> FALSE]
     ELSE \E seen \in Seen(w) :
          /\ flights' = [flights EXCEPT
                           ![w].calls = @ + 1, ![w].looked = TRUE,
                           ![w].reason = reason, ![w].view = seen,
                           ![w].found = rows,
                           ![w].lead = IF rows = {} THEN NoLeadSeen
                                       ELSE LET l == CHOOSE i \in rows : TRUE
                                            IN [stage |-> leads[l].stage,
                                                score |-> leads[l].score]]
          /\ last' = [op |-> "select_lead", w |-> w, cid |-> f.conv,
                      reason |-> reason, found |-> rows]

\* the rest of request_handoff: the Lead is updated or created as the lookup
\* said, and db.commit() writes the conversation, the system message and the Lead
HandoffCommitBy(w) ==
  LET f == flights[w]
      cid == f.conv
      seen == f.view
      stage == HandoffLeadStage(seen.stage, f.reason)
      score == HandoffScore(seen.stage, f.reason)
      row == [convs[cid] EXCEPT
                !.status = Write(@, seen.status, "awaiting_human"),
                !.reason = Write(@, seen.reason, f.reason),
                !.requested_at = 1,
                !.summary = Write(@, seen.summary, "s1")]
      ls == IF f.found = {}
            THEN Append(leads, [conv |-> cid, user |-> seen.user, tenant |-> NullTok,
                                stage |-> stage, score |-> score,
                                next_action |-> HandoffNextAction(f.reason)])
            ELSE LET l == CHOOSE i \in f.found : TRUE
                 IN [leads EXCEPT
                       ![l].stage = Write(@, f.lead.stage, stage),
                       ![l].score = Write(@, f.lead.score,
                                          MergeScore(f.lead.score, score)),
                       ![l].next_action = HandoffNextAction(f.reason)]
  IN
  /\ f.pc = "agent"
  /\ f.looked
  /\ Len(msgs) < MaxMsgs
  /\ Len(ls) <= MaxLeads
  /\ convs' = [convs EXCEPT ![cid] = row]
  /\ sess' = [convs EXCEPT ![cid] = row]
  /\ msgs' = Append(msgs, NewMessage(cid, "system", "handoff"))
  /\ leads' = ls
  /\ flights' = [flights EXCEPT ![w].looked = FALSE, ![w].view = row,
                                ![w].found = {}, ![w].lead = NoLeadSeen]
  /\ last' = [op |-> "request_handoff", w |-> w, cid |-> cid, reason |-> f.reason,
              ok |-> TRUE]
  /\ UNCHANGED <<users, pc, run, resolved, invokes>>
  /\ UNCHANGED <<tenants, http, MULTI_TENANT_ENABLED, contentVars>>

\* the end of process_message of worker w: the reply is stored and the
\* conversation is read once more for the answer
ReturnBy(w, output) ==
  LET f == flights[w]
  IN
  /\ f.pc = "agent"
  /\ ~f.looked
  /\ Len(msgs) < MaxMsgs
  /\ msgs' = SaveMessage(msgs, f.conv, "assistant", output)
  /\ flights' = [flights EXCEPT ![w] = NoFlight]
  /\ \E seen \in Seen(w) :
       last' = [op |-> "agent_return", w |-> w, cid |-> f.conv, uid |-> f.user,
                response |-> output, funnel_stage |-> seen.stage,
                status |-> seen.status]
  /\ UNCHANGED <<users, convs, sess, leads, pc, run, resolved, invokes>>
  /\ UNCHANGED <<tenants, http, MULTI_TENANT_ENABLED, contentVars>>

\* the tokens the agents of concurrent requests pass to the status tool
ConcStatus == {NullTok, "converted"}
ConcStages == {NullTok, "Negotiation"}

NextConcurrent ==
  \/ \E w \in Workers, key \in ChatKeys, cid \in {NoCid, LeadCid}, text \in Texts :
       ProcessMessageBy(w, key, cid, text)
  \/ \E w \in Workers, status \in ConcStatus, stage \in ConcStages :
       UpdateConversationStatusBy(w, status, stage)
  \/ \E w \in Workers, reason \in {ReasonOk} : HandoffLookupBy(w, reason)
  \/ \E w \in Workers : HandoffCommitBy(w)
  \/ \E w \in Workers, output \in AgentOutputs : ReturnBy(w, output)

SpecConcurrent == Init /\ [][NextConcurrent]_vars

\* requests of a tenant that is deactivated while they are being served
NextDeactivate ==
  \/ \E w \in Workers, slug \in SlugHeaders, key \in KeyHeaders :
       TenantValidated(w, slug, key)
  \/ \E slug \in TenantSlugs : DeleteTenant(slug)
  \/ \E w \in Workers, key \in ChatKeys, cid \in {NoCid, LeadCid}, text \in Texts :
       ProcessMessageBy(w, key, cid, text)
  \/ \E w \in Workers, stage \in ConcStages :
       UpdateConversationStatusBy(w, NullTok, stage)
  \/ \E w \in Workers, output \in AgentOutputs : ReturnBy(w, output)

InitDeactivate == InitCore /\ MULTI_TENANT_ENABLED = TRUE

SpecDeactivate == InitDeactivate /\ [][NextDeactivate]_vars

(***************************************************************************)
(* Prompt templates and knowledge documents of a tenant, and the cache of  *)
(* TenantPromptService in front of them                                    *)
(***************************************************************************)
PromptContents == {"p1", "p2"}
DefaultTemplate == "default"

\* select(...).where(tenant_id == tenant_id, prompt_type == prompt_type)
PromptsOf(ps, t, ptype) ==
  {i \in 1..Len(ps) : ps[i].tenant = t /\ ps[i].ptype = ptype}

\* for prompt in prompts_to_deactivate.scalars(): prompt.is_active = False
Deactivate(ps, t, ptype) ==
  [i \in 1..Len(ps) |->
     IF i \in PromptsOf(ps, t, ptype) THEN [ps[i] EXCEPT !.is_active = FALSE]
     ELSE ps[i]]

\* invalidate_cache(tenant_id, prompt_type): pops the prompt's entry and every
\* knowledge entry of the tenant
InvalidatedPrompts(cache, t, ptype) == [cache EXCEPT ![<<t, ptype>>] = NullTok]
InvalidatedKnowledge(cache, t) == [cache EXCEPT ![t] = NullTok]

\* PUT /tenants/prompts/{prompt_type} for the tenant of the request
UpdateTenantPrompt(t, ptype, content) ==
  LET rows == PromptsOf(prompts, t, ptype)
      base == [op |-> "update_tenant_prompt", t |-> t, ptype |-> ptype]
  IN
  /\ pc = "idle"
  /\ UNCHANGED <<users, convs, sess, msgs, leads, pc, run, resolved, invokes>>
  /\ UNCHANGED <<tenants, http, MULTI_TENANT_ENABLED, docs, flights>>
  /\ IF Cardinality(rows) > 1
     THEN \* scalar_one_or_none() on the versions raises MultipleResultsFound
          /\ last' = base @@ [ok |-> FALSE, status |-> 500, version |-> 0]
          /\ UNCHANGED <<prompts, prompt_cache, knowledge_cache>>
     ELSE LET max_version == IF rows = {} THEN 0
                             ELSE prompts[CHOOSE i \in rows : TRUE].version
              new_version == max_version + 1
          IN /\ Len(prompts) < MaxPrompts
             /\ prompts' = Append(Deactivate(prompts, t, ptype),
                                  [tenant |-> t, ptype |-> ptype,
                                   version |-> new_version, is_active |-> TRUE,
                                   system_prompt |-> content])
             /\ prompt_cache' = InvalidatedPrompts(prompt_cache, t, ptype)
             /\ knowledge_cache' = InvalidatedKnowledge(knowledge_cache, t)
             /\ last' = base @@ [ok |-> TRUE, status |-> 200, version |-> new_version]

\* get_prompt: a valid cache entry answers; otherwise the active row (or the
\* default template) is read, cached and returned.  expired says whether the
\* entry is older than prompt_ttl at the time of the call.
GetPrompt(t, ptype, expired) ==
  LET cached == prompt_cache[<<t, ptype>>]
      active == {i \in PromptsOf(prompts, t, ptype) : prompts[i].is_active}
      base == [op |-> "get_prompt", t |-> t, ptype |-> ptype]
  IN
  /\ pc = "idle"
  /\ UNCHANGED <<users, convs, sess, msgs, leads, pc, run, resolved, invokes>>
  /\ UNCHANGED <<tenants, http, MULTI_TENANT_ENABLED, prompts, docs, knowledge_cache,
               flights>>
  /\ IF cached # NullTok /\ ~expired
     THEN /\ last' = base @@ [ok |-> TRUE, content |-> cached]
          /\ UNCHANGED prompt_cache
     ELSE IF Cardinality(active) > 1
     THEN \* scalar_one_or_none() raises MultipleResultsFound
          /\ last' = base @@ [ok |-> FALSE, content |-> NullTok]
          /\ UNCHANGED prompt_cache
     ELSE LET content == IF active = {} THEN DefaultTemplate
                         ELSE prompts[CHOOSE i \in active : TRUE].system_prompt
          IN /\ last' = base @@ [ok |-> TRUE, content |-> content]
             /\ prompt_cache' = [prompt_cache EXCEPT ![<<t, ptype>>] = content]

DocContents == {"d1", "d2"}

\* what get_knowledge_base falls back on when the tenant has no document:
\* the text of workhub_product.txt, or "" when the file is missing
FileKnowledge == "file"

\* POST /tenants/knowledge with slug "product-knowledge", an active document
CreateKnowledgeDocument(t, content) ==
  /\ pc = "idle"
  /\ UNCHANGED <<users, convs, sess, msgs, leads, pc, run, resolved, invokes>>
  /\ UNCHANGED <<tenants, http, MULTI_TENANT_ENABLED, prompts, prompt_cache,
                 knowledge_cache, flights>>
  /\ IF docs[t] # NullTok
     THEN /\ last' = [op |-> "create_knowledge_document", t |-> t, status |-> 400]
          /\ UNCHANGED docs
     ELSE /\ docs' = [docs EXCEPT ![t] = content]
          /\ last' = [op |-> "create_knowledge_document", t |-> t, status |-> 201]

\* PUT /tenants/knowledge/product-knowledge with a new content
UpdateKnowledgeDocument(t, content) ==
  /\ pc = "idle"
  /\ UNCHANGED <<users, convs, sess, msgs, leads, pc, run, resolved, invokes>>
  /\ UNCHANGED <<tenants, http, MULTI_TENANT_ENABLED, prompts, prompt_cache,
                 knowledge_cache, flights>>
  /\ IF docs[t] = NullTok
     THEN /\ last' = [op |-> "update_knowledge_document", t |-> t, status |-> 404]
          /\ UNCHANGED docs
     ELSE /\ docs' = [docs EXCEPT ![t] = content]
          /\ last' = [op |-> "update_knowledge_document", t |-> t, status |-> 200]

\* the content of the tenant's document as the database has it
StoredKnowledge(ds, t) == IF ds[t] # NullTok THEN ds[t] ELSE FileKnowledge

\* get_knowledge_base: a valid cache entry answers; otherwise the document (or
\* the fallback) is read, cached and returned.  expired says whether the entry
\* is older than knowledge_ttl at the time of the call.
GetKnowledgeBase(t, expired) ==
  LET cached == knowledge_cache[t]
  IN
  /\ pc = "idle"
  /\ UNCHANGED <<users, convs, sess, msgs, leads, pc, run, resolved, invokes>>
  /\ UNCHANGED <<tenants, http, MULTI_TENANT_ENABLED, prompts, prompt_cache, docs,
                 flights>>
  /\ IF cached # NullTok /\ ~expired
     THEN /\ last' = [op |-> "get_knowledge_base", t |-> t, content |-> cached]
          /\ UNCHANGED knowledge_cache
     ELSE /\ last' = [op |-> "get_knowledge_base", t |-> t,
                      content |-> StoredKnowledge(docs, t)]
          /\ knowledge_cache' =
                [knowledge_cache EXCEPT ![t] = StoredKnowledge(docs, t)]

NextKnowledge ==
  \/ \E t \in TenantIds, content \in DocContents : CreateKnowledgeDocument(t, content)
  \/ \E t \in TenantIds, content \in DocContents : UpdateKnowledgeDocument(t, content)
  \/ \E t \in TenantIds, expired \in BOOLEAN : GetKnowledgeBase(t, expired)
  \/ \E t \in TenantIds, content \in PromptContents :
       UpdateTenantPrompt(t, "sales_agent", content)
  \/ \E t \in TenantIds, expired \in BOOLEAN : GetPrompt(t, "sales_agent", expired)

SpecKnowledge == Init /\ [][NextKnowledge]_vars

NextPrompt ==
  \/ \E t \in TenantIds, ptype \in PromptTypes, content \in PromptContents :
       UpdateTenantPrompt(t, ptype, content)
  \/ \E t \in TenantIds, ptype \in PromptTypes, expired \in BOOLEAN :
       GetPrompt(t, ptype, expired)

SpecPrompt == Init /\ [][NextPrompt]_vars

(***************************************************************************)
(* Identity resolution across tenants: get_or_create_user called on behalf *)
(* of a request authenticated as tenant t                                  *)
(***************************************************************************)
ResolveUser(t, key, name) ==
  LET u == get_or_create_user(users, key, name)
  IN
  /\ pc = "idle"
  /\ Len(u.users) <= MaxUsers
  /\ ~u.raised
  /\ users' = u.users
  /\ resolved' = [resolved EXCEPT ![<<t, key>>] = u.uid]
  /\ last' = [op |-> "get_or_create_user", t |-> t, key |-> key, name |-> name,
              uid |-> u.uid]
  /\ UNCHANGED <<convs, sess, msgs, leads, pc, run, invokes>>
  /\ UNCHANGED httpVars

NextIdentity ==
  \E t \in TenantIds, key \in UserKeys, name \in UserNames : ResolveUser(t, key, name)

SpecIdentity == Init /\ [][NextIdentity]_vars

(***************************************************************************)
(* Properties                                                              *)
(***************************************************************************)
\* the step is a call of process_message that resolves to the existing
\* conversation c, whose stored status is awaiting_human
BlockedCall(c) ==
  /\ last'.op = "process_message"
  /\ last'.cid = c
  /\ convs[c].status = "awaiting_human"

\* C1: a call of process_message on a conversation whose stored status is
\* awaiting_human selects and invokes no agent persona, and leaves the
\* conversation's stored status and funnel_stage as they were before the call.
C1_BlockedCallInvokesNoAgent ==
  [][\A c \in 1..Len(convs) :
       BlockedCall(c) =>
         /\ ~last'.selected
         /\ pc' = "idle"
         /\ run' = NoRun
         /\ convs'[c].status = convs[c].status
         /\ convs'[c].stage = convs[c].stage
         /\ sess'[c].status = convs[c].status
         /\ sess'[c].stage = convs[c].stage]_vars

C1_Witness ==
  /\ last.op = "process_message"
  /\ last.outcome = "blocked"
  /\ convs[last.cid].status = "awaiting_human"
  /\ pc = "idle"

C3_UsersIsolatedByTenant ==
  [][/\ \A k \in UserKeys, t1 \in TenantIds, t2 \in TenantIds :
          (t1 # t2 /\ resolved'[<<t1, k>>] # 0 /\ resolved'[<<t2, k>>] # 0)
          => resolved'[<<t1, k>>] # resolved'[<<t2, k>>]
     /\ \A k \in UserKeys, t2 \in TenantIds :
          (/\ last'.op = "get_or_create_user"
           /\ last'.t # t2
           /\ resolved[<<t2, k>>] # 0)
          => users'[resolved[<<t2, k>>]] = users[resolved[<<t2, k>>]]]_vars

\* the paths of the model that are neither health, documentation nor static
ProtectedPaths == {PathChat}

CredentialsOk(ts, slug, key) ==
  /\ slug # NullTok
  /\ key # NullTok
  /\ slug \in DOMAIN ts
  /\ ts[slug].status = "active"
  /\ ts[slug].is_active
  /\ CheckPw(key, ts[slug].api_key_hash)

\* C4: in multi-tenant mode the handler of a non-OPTIONS request to a
\* protected path runs only if both credential headers are present, the tenant
\* exists, is active and the key matches its hash; a request to /api/v1/chat
\* without the tenant header is answered 400 and does not reach the handler.
C4_HandlerNeedsCredentials ==
  [][(/\ MULTI_TENANT_ENABLED
      /\ http' # http
      /\ http'.method # "OPTIONS"
      /\ http'.path \in ProtectedPaths)
     => /\ http'.handler => CredentialsOk(tenants, http'.slug, http'.key)
        /\ (http'.path = PathChat /\ http'.slug = NullTok)
           => (~http'.handler /\ http'.status = 400)]_vars

\* C5: a successful handoff request, through the legacy tool and through the
\* tenant-scoped tool alike, leaves the conversation with status
\* awaiting_human, the given reason, a request timestamp, context_summary equal
\* to the summary the call was given, and a Lead row for the conversation.
C5_HandoffRecordsEverything ==
  [][(last'.op = "request_handoff" /\ last'.ok)
     => LET c == last'.cid
        IN /\ convs'[c].status = "awaiting_human"
           /\ convs'[c].reason = last'.reason
           /\ convs'[c].requested_at # 0
           /\ ("summary" \in DOMAIN last') => convs'[c].summary = last'.summary
           /\ LeadsOfConversation(leads', c) # {}]_vars

\* C6: each successful handoff request leaves exactly one Lead row for the
\* conversation; a Lead row the conversation had before the request is that
\* same row afterwards, and its score is not lower than before.
C6_OneLeadScoreMonotone ==
  [][(last'.op = "request_handoff" /\ last'.ok)
     => LET c == last'.cid
        IN /\ Cardinality(LeadsOfConversation(leads', c)) = 1
           /\ \A l \in LeadsOfConversation(leads, c) :
                /\ l \in LeadsOfConversation(leads', c)
                /\ leads'[l].score >= leads[l].score]_vars

\* a repeated handoff whose own score is below the score the Lead keeps
C6_Witness ==
  /\ last.op = "request_handoff"
  /\ last.ok
  /\ \E l \in LeadsOfConversation(leads, last.cid) :
       leads[l].score > HandoffScore(convs[last.cid].stage, last.reason)

InvalidValueErrors == {"Invalid status", "Invalid funnel_stage", "Invalid funnel stage"}

\* C7: a call of update_conversation_status with an unrecognized status or
\* funnel_stage token returns an invalid-value error and leaves the stored
\* status and funnel_stage unchanged, right after the call and also once the
\* request's session is committed.
C7_InvalidTokenWritesNothing ==
  [][/\ (last'.op = "update_conversation_status" /\ last'.err \in InvalidValueErrors)
        => (~last'.ok /\ convs' = convs)
     /\ (/\ last.op = "update_conversation_status"
         /\ last.err \in InvalidValueErrors
         /\ last'.op = "agent_return")
        => /\ convs'[last.cid].status = convs[last.cid].status
           /\ convs'[last.cid].stage = convs[last.cid].stage]_vars

\* C8: a call of process_message on a conversation in status awaiting_human
\* appends exactly one Message, with role user and the inbound text, to that
\* conversation, and answers the transferred notice with status
\* awaiting_human, blocked = true and the stored handoff reason.
C8_BlockedCallStoresUserMessage ==
  [][\A c \in 1..Len(convs) :
       BlockedCall(c) =>
         /\ Len(msgs') = Len(msgs) + 1
         /\ SubSeq(msgs', 1, Len(msgs)) = msgs
         /\ msgs'[Len(msgs')].conv = c
         /\ msgs'[Len(msgs')].role = "user"
         /\ msgs'[Len(msgs')].content = last'.text
         /\ last'.outcome = "blocked"
         /\ last'.response = [kind |-> "transferred", reason |-> convs[c].reason]
         /\ last'.status = "awaiting_human"
         /\ last'.blocked = TRUE
         /\ last'.handoff_reason = convs[c].reason]_vars

C8_Witness ==
  /\ last.op = "process_message"
  /\ last.outcome = "blocked"
  /\ last.handoff_reason = ReasonPronto
  /\ msgs[Len(msgs)] = NewMessage(last.cid, "user", last.text)
  /\ \E i \in 1..(Len(msgs) - 1) : msgs[i].conv = last.cid /\ msgs[i].role = "assistant"

ToolOps == {"update_conversation_status", "request_handoff"}

\* the sink statuses of the conversation state machine
TerminalStatus == {"converted", "lost", "abandoned"}

\* C9: once a conversation's status is converted, lost or abandoned, no status
\* update and no handoff request changes it, and a handoff request succeeds
\* only on a conversation in a non-terminal status.
C9_TerminalStatusIsSink ==
  [][last'.op \in ToolOps
     => /\ \A c \in 1..Len(convs) :
             convs[c].status \in TerminalStatus
             => convs'[c].status = convs[c].status
        /\ (last'.op = "request_handoff" /\ last'.ok)
           => convs[last'.cid].status \notin TerminalStatus]_vars

\* C10: once a conversation's status is awaiting_human it stays
\* awaiting_human through every later chat message and agent tool call,
\* those of the agent run that requested the handoff included.
C10_AwaitingHumanPersists ==
  [][\A c \in 1..Len(convs) :
       convs[c].status = "awaiting_human"
       => convs'[c].status = "awaiting_human"]_vars

\* the reasons of the model that contain "pronto" or "fechar" in some letter case
ClosingReasons == {ReasonPronto, ReasonFechar}

\* C11: a handoff on a conversation without a Lead creates a Lead whose stage
\* and score follow from the funnel_stage and the reason: negotiation or
\* closed_won with a closing reason gives hot with score >= 80, negotiation or
\* closed_won otherwise gives qualified with score in 70..100, consideration
\* gives warm with 60, every other stage gives warm with 50.
C11_HandoffLeadFromStageAndReason ==
  [][(/\ last'.op = "request_handoff"
      /\ last'.ok
      /\ LeadsOfConversation(leads, last'.cid) = {})
     => /\ Len(leads') = Len(leads) + 1
        /\ LET l == leads'[Len(leads')]
               fs == convs'[last'.cid].stage
           IN /\ l.conv = last'.cid
              /\ (fs \in {"negotiation", "closed_won"} /\ last'.reason \in ClosingReasons)
                 => (l.stage = "hot" /\ l.score >= 80 /\ l.score <= 100)
              /\ (fs \in {"negotiation", "closed_won"} /\ last'.reason \notin ClosingReasons)
                 => (l.stage = "qualified" /\ l.score >= 70 /\ l.score <= 100)
              /\ fs = "consideration" => (l.stage = "warm" /\ l.score = 60)
              /\ fs \notin {"negotiation", "closed_won", "consideration"}
                 => (l.stage = "warm" /\ l.score = 50)]_vars

C11_Witness ==
  /\ last.op = "request_handoff"
  /\ last.ok
  /\ last.reason = ReasonFechar
  /\ convs[last.cid].stage = "closed_won"
  /\ Len(leads) = 1
  /\ leads[1].stage = "hot"
  /\ leads[1].score = 80

\* C12: every stored Lead has an integer score between 0 and 100, whichever
\* of the legacy create_lead, the tenant create_lead and the handoff wrote it
\* and whatever score the caller supplied.
C12_LeadScoreInRange ==
  \A i \in 1..Len(leads) : leads[i].score \in 0..100

\* the tools of TenantToolRegistry that SpecLead runs
TenantLeadOps == {"create_lead", "get_conversation_history"}

\* a Lead row refers to a conversation or a user that belongs to a tenant other than t
RefersToOtherTenant(l, t) ==
  \/ convs[l.conv].tenant \in TenantIds \ {t}
  \/ users[l.user].tenant \in TenantIds \ {t}

\* C13: a tool of the tenant registry built for tenant T touches only rows of
\* T: whatever ids it is given, it returns no message of another tenant and
\* neither creates nor changes a Lead that refers to a conversation or a user
\* of another tenant.
C13_TenantToolsStayInTenant ==
  [][(last'.op \in TenantLeadOps /\ last'.scope \in TenantIds)
     => /\ \A i \in 1..Len(leads') :
             (i > Len(leads) \/ leads'[i] # leads[i])
             => /\ leads'[i].tenant = last'.scope
                /\ ~RefersToOtherTenant(leads'[i], last'.scope)
        /\ last'.op = "get_conversation_history"
           => \A m \in last'.rows : msgs[m].tenant = last'.scope]_vars

\* the tenant row is not usable: not active by status, deactivated, or expired
TenantUnusable(row) ==
  \/ row.status # "active"
  \/ ~row.is_active
  \/ row.expires_at = "past"

\* C14: tenant resolution rejects with 403, returning no tenant, every tenant
\* whose status is not active, whose active flag is false or whose expiry time
\* is in the past, even when the request carries the tenant's correct API key.
C14_UnusableTenantRejected ==
  [][(/\ last'.op = "validate_tenant_headers"
      /\ last'.slug \in DOMAIN tenants
      /\ last'.key = ApiKeyOf(last'.slug)
      /\ TenantUnusable(tenants[last'.slug]))
     => (last'.status = 403 /\ last'.tenant = NullTok)]_vars

\* C15: a message on a conversation that is not awaiting_human is stored as
\* the conversation's user Message when the agent is invoked, and every stored
\* message is still stored when the run ends, with a reply, with a classified
\* failure or with an exception that aborts the request.
C15_InboundStoredBeforeAgent ==
  [][/\ (last'.op = "process_message" /\ last'.outcome = "invoking")
        => /\ pc' = "agent"
           /\ Len(msgs') = Len(msgs) + 1
           /\ msgs'[Len(msgs')] = NewMessage(last'.cid, "user", last'.text)
     /\ (pc = "agent" /\ run.viaChat)
        => /\ Len(msgs') >= Len(msgs)
           /\ \A i \in 1..Len(msgs) : msgs'[i] = msgs[i]]_vars

C15_Witness ==
  /\ last.op = "agent_abort"
  /\ Len(msgs) = 3
  /\ msgs[3] = NewMessage(last.cid, "user", "hi")
  /\ msgs[2].content = "rate_limit"
  /\ sess = convs

\* the legacy tools that update a stored conversation
UpdateOps == {"update_conversation_status", "update_context_summary", "request_handoff"}

\* C16: an update tool called with a well-formed conversation id that matches
\* no stored conversation returns a not-found error, creates no Conversation,
\* Message or Lead and changes no row.
C16_UnknownIdChangesNothing ==
  [][(/\ last'.op \in UpdateOps
      /\ last'.cid \notin {NoCid, BadCid}
      /\ last'.cid \notin 1..Len(convs))
     => /\ ~last'.ok
        /\ last'.err = "Conversation not found"
        /\ UNCHANGED <<users, convs, sess, msgs, leads>>]_vars

C16_Witness ==
  /\ last.op = "update_context_summary"
  /\ last.cid = 2
  /\ Len(convs) = 1
  /\ ~last.ok
  /\ last.err = "Conversation not found"
  /\ run.calls > 0

\* the id given to process_message is absent or matches no stored conversation
NoSuchConversation(cid) == cid = NoCid \/ (cid # BadCid /\ cid \notin 1..Len(convs))

NameMatches(name) ==
  {i \in 1..Len(users) : /\ users[i].name # NullSeq
                         /\ Contains(LowerStr(users[i].name), LowerStr(name))}

\* C18: when no stored user has the supplied key and a name is supplied, the
\* name is matched case-insensitively against the stored names containing it:
\* exactly one match is returned and no user is created, of several matches
\* the latest created is returned, and with no match a user with the supplied
\* key and name is created.
C18_NameBasedResolution ==
  [][(/\ last'.op = "get_or_create_user"
      /\ \A i \in 1..Len(users) : users[i].key # last'.key
      /\ last'.name # NullSeq)
     => LET M == NameMatches(last'.name)
        IN /\ Cardinality(M) >= 1
              => /\ Len(users') = Len(users)
                 /\ last'.uid \in M
                 /\ \A j \in M : j <= last'.uid
                 /\ users'[last'.uid].key = users[last'.uid].key
           /\ M = {}
              => /\ Len(users') = Len(users) + 1
                 /\ last'.uid = Len(users')
                 /\ users'[last'.uid].key = last'.key
                 /\ users'[last'.uid].name = last'.name]_vars

C18_Witness ==
  /\ last.op = "get_or_create_user"
  /\ last.key = "k3"
  /\ last.name = NameAn
  /\ last.uid = 2
  /\ Len(users) = 2
  /\ users[1].key = "k1"
  /\ users[1].name = NameAna
  /\ users[2].key = "k2"

\* the admin keywords in lower case
LowerKeywords ==
  { <<"a", "d", "m", "i", "n">>,
    <<"a", "d", "m", "i", "n", "i", "s", "t", "r", "a", "d", "o", "r">> }

\* the name marks an admin: it is set and its lower-cased form contains a keyword
NamesAdmin(name) ==
  /\ name # NullSeq
  /\ Len(name) > 0
  /\ \E kw \in LowerKeywords : Contains(LowerStr(name), kw)

\* C19: on every processed message the persona is chosen from the user's
\* display name as stored at that moment, after the request's own name update:
\* admin exactly when the lower-cased name contains a lower-cased admin
\* keyword, and no earlier choice is remembered.
C19_PersonaFromStoredName ==
  [][\A key \in ChatKeys, name \in PersonaNames, cid \in CidInputs, text \in Texts :
       (ProcessMessage(NullTok, key, name, cid, text) /\ last'.outcome = "invoking")
       => /\ name # NullSeq => users'[last'.uid].name = name
          /\ (name = NullSeq /\ last'.uid <= Len(users))
             => users'[last'.uid].name = users[last'.uid].name
          /\ run'.persona = IF NamesAdmin(users'[last'.uid].name)
                            THEN "admin" ELSE "sales"]_vars

C19_Witness ==
  /\ pc = "agent"
  /\ last.op = "process_message"
  /\ run.persona = "sales"
  /\ users[run.user].name = NameAna
  /\ Len(msgs) = 3
  /\ msgs[2].role = "assistant"

\* C20: in legacy mode and in multi-tenant mode alike, the tool set of a run
\* of the sales persona contains no analytics tool, and the tool set of a run
\* of the admin persona contains the analytics tools and the
\* conversation-history tool.
C20_PersonaToolSets ==
  pc = "agent"
  => /\ run.persona = "sales" => ToolsOfRun(run) \cap create_analytics_tools = {}
     /\ run.persona = "admin"
        => /\ create_analytics_tools \subseteq ToolsOfRun(run)
           /\ "get_conversation_history" \in ToolsOfRun(run)

\* C21: every admin-only path entered for a user who is not an admin fails
\* with a permission or access-denied error: building the admin agent raises
\* and starts no run of any persona, and an analytics tool returns the error
\* and no data.
C21_AdminPathsDenyOthers ==
  [][/\ (last'.op = "invoke_admin" /\ ~NamesAdmin(NameOfUser(users, last'.uid)))
        => /\ ~last'.ok
           /\ last'.err = "PermissionError"
           /\ pc' = "idle"
           /\ run' = NoRun
     /\ (last'.op \in create_analytics_tools /\ ~NamesAdmin(NameOfUser(users, last'.uid)))
        => /\ ~last'.ok
           /\ last'.err = "Access denied. Admin privileges required."
           /\ ~last'.data.present]_vars

C21_Witness ==
  /\ last.op = "invoke_admin"
  /\ last.uid = 1
  /\ users[1].name = NameAna
  /\ ~last.ok
  /\ last.err = "PermissionError"
  /\ pc = "idle"
  /\ Len(convs) >= 1

\* the fixed apology of each failure class
FixedApology(class) ==
  CASE class = "OutputParserException" -> "parse_error"
    [] class = "RateLimitError" -> "rate_limit"
    [] class = "APITimeoutError" -> "timeout"
    [] class = "APIError" -> "provider_error"
    [] class = "Exception" -> "unexpected_error"

VersionsOf(ps, t, ptype) == {ps[i].version : i \in PromptsOf(ps, t, ptype)}

\* C23: for every (tenant, prompt-type), each prompt update succeeds and
\* creates a version numbered one more than the previous maximum (1, 2, 3,
\* ...), and after it exactly one version of that (tenant, prompt-type) is
\* active, the newest.
C23_PromptVersionsIncrement ==
  [][last'.op = "update_tenant_prompt"
     => LET t == last'.t
            ptype == last'.ptype
            before == VersionsOf(prompts, t, ptype)
            after == PromptsOf(prompts', t, ptype)
        IN /\ last'.ok
           /\ last'.version = Cardinality(before) + 1
           /\ VersionsOf(prompts', t, ptype) = 1..(Cardinality(before) + 1)
           /\ {i \in after : prompts'[i].is_active}
                = {i \in after : prompts'[i].version = last'.version}
           /\ Cardinality({i \in after : prompts'[i].is_active}) = 1]_vars

\* the tenant responses a step's answer carries: one for create, get and
\* update, all of them for list
ResponsesOf(l) ==
  IF l.status # 200 THEN {}
  ELSE IF l.op = "list_tenants" THEN l.response
  ELSE IF l.op \in {"create_tenant", "get_tenant", "update_tenant"} THEN {l.response}
  ELSE {}

\* C24: creating a tenant answers with the full API secret, and the row it
\* stores holds the hash of the secret and its prefix and no field with the
\* secret; every answer of get, list and update has the stored prefix, which is
\* shorter than the secret, and no field with the secret or with its hash.
C24_SecretShownOnceOnly ==
  [][ /\ (last' # last /\ last'.op = "create_tenant" /\ last'.status = 200) =>
          LET r == last'.response
              row == tenants'[last'.slug]
          IN /\ last'.slug \notin DOMAIN tenants
             /\ row.api_key_hash = HashOf(r.api_key)
             /\ row.api_key_prefix = ApiKeyPrefix(r.api_key)
             /\ r.api_key_prefix = row.api_key_prefix
             /\ Len(row.api_key_prefix) < Len(r.api_key)
             /\ "api_key" \notin DOMAIN row
             /\ "api_key_hash" \notin DOMAIN r
      /\ (last'.op \in {"get_tenant", "list_tenants", "update_tenant"}) =>
          \A r \in ResponsesOf(last') :
             /\ "api_key" \notin DOMAIN r
             /\ "api_key_hash" \notin DOMAIN r
             /\ r.api_key_prefix = tenants'[r.slug].api_key_prefix
    ]_vars

\* a tenant created here is read back by get
C24_Witness ==
  /\ last.op = "get_tenant"
  /\ last.status = 200
  /\ last.slug = "newco"
  /\ Len(last.response.api_key_prefix) = PrefixLen

\* C25: when the agent requests handoff with reason "ready to close" on a
\* conversation opened at (active, awareness) that has no Lead, the conversation
\* is awaiting_human afterwards and has a Lead of stage hot; a later message to
\* that conversation is answered with the transferred notice, leaves the status
\* awaiting_human and is stored for that conversation.
C25_HandoffThenBlocked ==
  [][ /\ (/\ last'.op = "request_handoff"
          /\ last'.ok
          /\ last'.reason = ReasonReadyToClose
          /\ convs[last'.cid].status = "active"
          /\ convs[last'.cid].stage = "awareness"
          /\ LeadsOfConversation(leads, last'.cid) = {})
         => /\ convs'[last'.cid].status = "awaiting_human"
            /\ \E i \in LeadsOfConversation(leads', last'.cid) : leads'[i].stage = "hot"
      /\ (/\ last'.op = "process_message"
          /\ last'.outcome = "blocked"
          /\ last' # last)
         => /\ last'.response.kind = "transferred"
            /\ convs'[last'.cid].status = "awaiting_human"
            /\ Len(msgs') = Len(msgs) + 1
            /\ msgs'[Len(msgs')].conv = last'.cid
    ]_vars

\* C26: no two chat requests are past the gate of process_message for the
\* same conversation at the same time, so that what one of them writes to the
\* conversation or its Lead cannot be overwritten by the other.
C26_OneOrchestrationPerConversation ==
  \A w1 \in Workers, w2 \in Workers :
     (w1 # w2 /\ flights[w1].pc = "agent" /\ flights[w2].pc = "agent")
     => flights[w1].conv # flights[w2].conv

\* C27: a conversation never has more than one Lead row, also when two
\* handoff requests for it look the Lead up before either of them commits.
C27_OneLeadPerConversation ==
  \A c \in 1..Len(convs) : Cardinality(LeadsOfConversation(leads, c)) <= 1

\* the prompt of a tenant as the database has it
StoredPrompt(ps, t, ptype) ==
  LET active == {i \in PromptsOf(ps, t, ptype) : ps[i].is_active}
  IN IF active = {} THEN DefaultTemplate
     ELSE ps[CHOOSE i \in active : TRUE].system_prompt

\* C28: a read of a tenant's prompt or knowledge base returns the content that
\* the last completed prompt update or knowledge-document create or update
\* left in the database, never an older value kept in the cache.
C28_ReadsSeeLatestContent ==
  [][ /\ (last'.op = "get_prompt" /\ last'.ok)
         => last'.content = StoredPrompt(prompts, last'.t, last'.ptype)
      /\ (last'.op = "get_knowledge_base")
         => last'.content = StoredKnowledge(docs, last'.t)
    ]_vars

\* the step is made by the request of worker w and writes a conversation, a
\* message or a lead
MutatesFor(w) ==
  /\ flights[w].pc \in {"validated", "agent"}
  /\ flights'[w] # flights[w]
  /\ (convs' # convs \/ msgs' # msgs \/ leads' # leads)

\* C29: a request that was admitted for a tenant writes conversations, messages
\* and leads only while that tenant is still active: once the tenant has been
\* deactivated, the request makes no further such write.
C29_DeactivatedTenantStopsRequest ==
  [][\A w \in Workers :
       MutatesFor(w) => ~TenantUnusable(tenants[flights[w].tenant])]_vars

\* C30: a call of process_message that names an existing conversation of
\* another user than the one its user_key resolves to is not continued on that
\* conversation: no message is stored for it, no agent run is started on it,
\* and the answer is not the transferred notice with its handoff reason.
C30_ConversationOnlyForOwner ==
  [][(/\ last'.op = "process_message"
      /\ last'.outcome \in {"blocked", "invoking"}
      /\ last'.cid \in 1..Len(convs)
      /\ convs[last'.cid].user # last'.uid)
     => /\ \A i \in (Len(msgs) + 1)..Len(msgs') : msgs'[i].conv # last'.cid
        /\ run'.conv # last'.cid
        /\ last'.outcome # "blocked"]_vars

TypeOK ==
  /\ Len(users) <= MaxUsers
  /\ Len(convs) <= MaxConvs
  /\ Len(sess) = Len(convs)
  /\ Len(msgs) <= MaxMsgs
  /\ Len(leads) <= MaxLeads
  /\ pc \in {"idle", "agent"}
  /\ \A i \in 1..Len(convs) : convs[i].status \in ConversationStatus
                             /\ convs[i].stage \in FunnelStage

====
